---- MODULE Spec2Model ----
(***************************************************************************)
(* Model of the MPF host.                                                  *)
(*                                                                         *)
(* Part 1, specification Spec: the plugin lifecycle manager                *)
(* (mpf::PluginManager, src/src/plugin_manager.cpp): discovery, dependency *)
(* resolution (computeLoadOrder / topologicalSort / checkDependencies) and *)
(* the loadAll / initializeAll / startAll / stopAll / unloadAll phases.    *)
(*                                                                         *)
(* Part 2, specification SpecBus: the event bus (mpf::EventBusService,     *)
(* src/src/event_bus_service.cpp): subscribe / unsubscribe, publish and    *)
(* publishSync with the delivery loop taken step by step, queued           *)
(* deliveries, request handlers, the bus mutex and the threads calling in. *)
(***************************************************************************)
EXTENDS Naturals, Integers, Sequences, FiniteSets, TLC

(***************************************************************************)
(* Bounds of the model.                                                    *)
(***************************************************************************)
\* largest number of candidate files in one directory given to discover()
MaxDirLen == 1
\* subscriptions created over a run of the bus
MaxSubs == 2
\* publish() / publishSync() calls over a run of the bus
MaxEvents == 1
\* bus calls in progress at once, over all threads
MaxInflight == 1
\* events published on the bus whose statistics are followed
MaxCounted == 3
\* longest topic given to matchesTopic
MaxTopicLen == 5
\* longest pattern given to matchesTopic
MaxPatternLen == 3

(***************************************************************************)
(* Data model: plugin metadata as read from a candidate file.              *)
(***************************************************************************)
PluginDep(id, min, opt) ==
    [type |-> "plugin", id |-> id, minVersion |-> min, optional |-> opt]

ServiceDep(id, min, opt) ==
    [type |-> "service", id |-> id, minVersion |-> min, optional |-> opt]

Meta(id, version, provides, requires, priority) ==
    [id |-> id, version |-> version, provides |-> provides,
     requires |-> requires, priority |-> priority]

\* The candidate plugin files the directories are made of.  Several files
\* carry the same plugin id (duplicates), two provide the same service, and
\* the requires lists mix plugin and service, mandatory and optional kinds.
Files ==
    { \* a: base provider of service s, highest priority value
      [name |-> "a1", mpf |-> TRUE,
       meta |-> Meta("a", 1, {"s"}, << >>, 2)],
      \* a: optional plugin dependency on c
      [name |-> "a2", mpf |-> TRUE,
       meta |-> Meta("a", 1, {}, << PluginDep("c", 1, TRUE) >>, 0)],
      \* b: mandatory service dependency on s
      [name |-> "b1", mpf |-> TRUE,
       meta |-> Meta("b", 1, {}, << ServiceDep("s", 1, FALSE) >>, 1)],
      \* b: mandatory plugin dependency on a with a minimum version a1/a2 miss,
      \*    optional service dependency on t
      [name |-> "b2", mpf |-> TRUE,
       meta |-> Meta("b", 1, {},
                     << PluginDep("a", 2, FALSE), ServiceDep("t", 1, TRUE) >>, 0)],
      \* c: second provider of s, mandatory plugin dependency on b
      [name |-> "c1", mpf |-> TRUE,
       meta |-> Meta("c", 2, {"s"}, << PluginDep("b", 1, FALSE) >>, 0)],
      \* a: self-dependency, rejected by validation
      [name |-> "a3", mpf |-> TRUE,
       meta |-> Meta("a", 1, {"t"}, << PluginDep("a", 1, FALSE) >>, 0)],
      \* a library that is no MPF plugin (empty MetaData object)
      [name |-> "x0", mpf |-> FALSE,
       meta |-> Meta("", 0, {}, << >>, 0)] }

Ids == {"a", "b", "c"}

States == {"Discovered", "Loaded", "Initialized", "Started", "Unloaded"}

\* directories: every list of at most MaxDirLen distinct candidate files
Dirs ==
    { d \in UNION { [1..n -> Files] : n \in 0..MaxDirLen } :
         \A i, j \in 1..Len(d) : d[i] = d[j] => i = j }

Perms(S) ==
    { p \in [1..Cardinality(S) -> S] : \A i, j \in 1..Cardinality(S) : p[i] = p[j] => i = j }

Reverse(s) == [i \in 1..Len(s) |-> s[Len(s) + 1 - i]]

Range(s) == { s[i] : i \in 1..Len(s) }

VARIABLES
    alive,                 \* the manager has not been destroyed
    m_pluginMap,           \* id -> metadata of the loader registered under it
    hashOrder,             \* iteration order of m_pluginMap
    m_loaders,             \* ids of the loaders, in discovery order
    loaderState,           \* id -> PluginLoader::State of its loader
    m_serviceProviderMap,  \* service name -> providing plugin id
    leaked,                \* ids whose loader the last operation destroyed while loaded,
                           \* without unload()
    lastOp,                \* the operation that ran last
    repeated,              \* the operation before it was the same operation
    lastResult,            \* its return value
    lastOrder,             \* the order computeLoadOrder() gave it
    calls,                 \* the plugin/loader calls it made, in order
    errors                 \* ids it emitted pluginError for

\* the state of the event bus (mpf::EventBusService)
VARIABLES
    running,               \* the process has not crashed
    m_mutex,               \* 0 when free, else the thread that holds the bus mutex
    m_subscriptions,       \* subscription id -> Subscription
    m_subscriberIndex,     \* subscriberId -> ids of its subscriptions
    m_topicStats,          \* topic -> TopicData
    m_requestHandlers,     \* topic -> HandlerEntry
    m_handlerIndex,        \* handlerId -> topics it handles
    nextSub,               \* the next fresh subscription id
    frames,                \* thread -> its bus calls in progress, innermost last
    eventQueue,            \* queued handler invocations of the bus's event loop
    heap,                  \* payload of a QVariantMap -> what the map holds
    held,                  \* holder -> the payload of the map it keeps: 0 the
                           \* publisher's original, else a subscription's copy
    step                   \* what the last step of the bus did

managerVars == << alive, m_pluginMap, hashOrder, m_loaders, loaderState,
                  m_serviceProviderMap, leaked, lastOp, repeated, lastResult,
                  lastOrder, calls, errors >>

busVars == << running, m_mutex, m_subscriptions, m_subscriberIndex,
              m_topicStats, m_requestHandlers, m_handlerIndex, nextSub,
              frames, eventQueue, heap, held, step >>

\* the event data in existence
dataVars == << heap, held >>

vars == << managerVars, busVars >>

\* The record a step of the bus leaves in `step`:
\*   op       the step taken
\*   nested   the call was made by a handler that is running on the thread
\*   access   how the step touched the bus tables: "none", "locked" (inside
\*            a QMutexLocker scope) or "unlocked" (outside every scope)
\*   dangling the step read a Subscription that had been erased from
\*            m_subscriptions
\*   ended    the API call that ended with this step ("" when none did), how
\*            it ended ("return", "raise", "crash") and what it returned
\*   frame    the finished call, when a delivery, a request or a queued
\*            functor ended; else the arguments of the call the step made
\*   signals  the number of Qt signals the step emitted
Step(op, nested, access, dangling, ended, how, ret, frame) ==
    [op |-> op, nested |-> nested, access |-> access,
     dangling |-> dangling, ended |-> ended, how |-> how, ret |-> ret,
     frame |-> frame, signals |-> 0]

\* the step s, having emitted n signals
Emitting(s, n) == [s EXCEPT !.signals = n]

\* the threads that call into the bus
Threads == {1, 2}

\* EventBusService::EventBusService: empty tables, nothing in progress
InitBus ==
    /\ running = TRUE
    /\ m_mutex = 0
    /\ m_subscriptions = << >>
    /\ m_subscriberIndex = << >>
    /\ m_topicStats = << >>
    /\ m_requestHandlers = << >>
    /\ m_handlerIndex = << >>
    /\ nextSub = 1
    /\ frames = [t \in Threads |-> << >>]
    /\ eventQueue = << >>
    /\ heap = << >>
    /\ held = << >>
    /\ step = Step("new", FALSE, "none", FALSE, "", "", "void", << >>)

(***************************************************************************)
(* PluginMetadata and PluginLoader: the parts of the collaborators the     *)
(* manager relies on.                                                      *)
(***************************************************************************)
\* PluginMetadata::isValid(): a non-empty id and no plugin dependency on itself
isValid(metadata) ==
    /\ metadata.id # ""
    /\ \A i \in 1..Len(metadata.requires) :
          ~(metadata.requires[i].type = "plugin" /\ metadata.requires[i].id = metadata.id)

\* PluginLoader::isLoaded().  PluginLoader::plugin() is non-null exactly when
\* the loader is loaded, so the `if (!plugin) continue;` guards of the phases
\* never fire apart from the isLoaded()/state() guards before them.
isLoaded(st) == st \in {"Loaded", "Initialized", "Started"}

\* PluginLoader::load(): activates the module; succeeds is the outcome of
\* the activation.  A loader that is already loaded answers true and keeps
\* its state.
load(st, succeeds) ==
    IF isLoaded(st) THEN [state |-> st, ret |-> TRUE]
    ELSE IF succeeds THEN [state |-> "Loaded", ret |-> TRUE]
    ELSE [state |-> st, ret |-> FALSE]

\* PluginLoader::unload(): releases the module
unload(st) == "Unloaded"

(***************************************************************************)
(* Dependency resolution.                                                  *)
(***************************************************************************)
\* PluginManager::resolveServiceProvider: QHash::value, empty when absent
resolveServiceProvider(serviceId) ==
    IF serviceId \in DOMAIN m_serviceProviderMap
    THEN m_serviceProviderMap[serviceId] ELSE ""

\* faulty variant of depPluginId that resolves no service dependency
\* (sensitivity of C2)
depPluginId_PluginKindOnly(dep) ==
    IF dep.type = "plugin" THEN dep.id ELSE ""

\* the plugin id a dependency stands for in topologicalSort
depPluginId(dep) ==
    IF dep.type = "plugin" THEN dep.id
    ELSE IF dep.type = "service" THEN resolveServiceProvider(dep.id)
    ELSE ""

RECURSIVE topologicalSort(_, _, _), visitRequires(_, _, _, _)

\* the loop over loader->metadata().requires() inside topologicalSort,
\* from the i-th dependency on; returns at the first failing dependency
visitRequires(id, i, state, order) ==
    IF i > Len(m_pluginMap[id].requires)
    THEN [ok |-> TRUE, state |-> state, order |-> order]
    ELSE LET dep == depPluginId(m_pluginMap[id].requires[i]) IN
         IF dep # "" /\ dep \in DOMAIN m_pluginMap
         THEN LET r == topologicalSort(dep, state, order) IN
              IF ~r.ok THEN r
              ELSE visitRequires(id, i + 1, r.state, r.order)
         ELSE visitRequires(id, i + 1, state, order)

\* PluginManager::topologicalSort: 0 = unvisited, 1 = visiting, 2 = visited
topologicalSort(id, state, order) ==
    IF state[id] = 2 THEN [ok |-> TRUE, state |-> state, order |-> order]
    ELSE IF state[id] = 1 THEN [ok |-> FALSE, state |-> state, order |-> order]
    ELSE LET r == visitRequires(id, 1, [state EXCEPT ![id] = 1], order) IN
         IF ~r.ok THEN [ok |-> FALSE, state |-> r.state, order |-> r.order]
         ELSE [ok |-> TRUE, state |-> [r.state EXCEPT ![id] = 2],
               order |-> Append(r.order, id)]

RECURSIVE sortFrom(_, _, _)

\* the second loop of computeLoadOrder, over m_pluginMap in iteration order
sortFrom(k, state, order) ==
    IF k > Len(hashOrder) THEN order
    ELSE LET r == topologicalSort(hashOrder[k], state, order) IN
         sortFrom(k + 1, r.state, r.order)

\* faulty variant of computeLoadOrder whose second loop starts one entry late
\* (sensitivity of C16)
computeLoadOrder_SkipsFirst ==
    sortFrom(2, [id \in DOMAIN m_pluginMap |-> 0], << >>)

\* PluginManager::computeLoadOrder
computeLoadOrder ==
    sortFrom(1, [id \in DOMAIN m_pluginMap |-> 0], << >>)

\* PluginManager::loadOrder
loadOrder == computeLoadOrder

RECURSIVE checkFrom(_, _, _)

\* the loop of checkDependencies; a descriptor is the tuple of the parts of
\* the string the code formats: "plugin:<id>", "plugin:<id>>=<min>",
\* "service:<id>"
checkFrom(requires, i, unsatisfied) ==
    IF i > Len(requires) THEN unsatisfied
    ELSE LET dep == requires[i] IN
         IF dep.optional THEN checkFrom(requires, i + 1, unsatisfied)
         ELSE IF dep.type = "plugin"
         THEN IF dep.id \notin DOMAIN m_pluginMap
              THEN checkFrom(requires, i + 1,
                             Append(unsatisfied, << "plugin:", dep.id >>))
              ELSE IF m_pluginMap[dep.id].version < dep.minVersion
              THEN checkFrom(requires, i + 1,
                             Append(unsatisfied,
                                    << "plugin:", dep.id, ">=", dep.minVersion >>))
              ELSE checkFrom(requires, i + 1, unsatisfied)
         ELSE IF dep.type = "service"
         THEN IF resolveServiceProvider(dep.id) = ""
              THEN checkFrom(requires, i + 1,
                             Append(unsatisfied, << "service:", dep.id >>))
              ELSE checkFrom(requires, i + 1, unsatisfied)
         ELSE checkFrom(requires, i + 1, unsatisfied)

\* faulty variant of checkDependencies that looks at plugin-kind
\* dependencies only (sensitivity of C14)
checkDependencies_PluginKindOnly(metadata) ==
    checkFrom(SelectSeq(metadata.requires, LAMBDA d : d.type = "plugin"), 1, << >>)

\* PluginManager::checkDependencies
checkDependencies(metadata) == checkFrom(metadata.requires, 1, << >>)

(***************************************************************************)
(* discover()                                                              *)
(***************************************************************************)
\* faulty variant of discoverFile in which the last plugin listing a service
\* becomes its provider (sensitivity of C15)
discoverFile_LastProviderWins(st, f) ==
    IF ~f.mpf THEN st
    ELSE IF ~isValid(f.meta) THEN st
    ELSE IF f.meta.id \in DOMAIN st.map THEN st
    ELSE [map     |-> st.map @@ (f.meta.id :> f.meta),
          loaders |-> Append(st.loaders, f.meta.id),
          states  |-> st.states @@ (f.meta.id :> "Discovered"),
          prov    |-> [s \in DOMAIN st.prov \cup f.meta.provides |->
                          IF s \in f.meta.provides THEN f.meta.id ELSE st.prov[s]],
          count   |-> st.count + 1]

\* the body of the loop of discover() for one candidate file; st carries
\* m_pluginMap, m_loaders, the loaders' states, m_serviceProviderMap and count
discoverFile(st, f) ==
    IF ~f.mpf THEN st                                  \* meta.isEmpty()
    ELSE IF ~isValid(f.meta) THEN st
    ELSE IF f.meta.id \in DOMAIN st.map THEN st        \* duplicate plugin id
    ELSE [map     |-> st.map @@ (f.meta.id :> f.meta),
          loaders |-> Append(st.loaders, f.meta.id),
          states  |-> st.states @@ (f.meta.id :> "Discovered"),
          prov    |-> [s \in DOMAIN st.prov \cup f.meta.provides |->
                          IF s \in DOMAIN st.prov THEN st.prov[s] ELSE f.meta.id],
          count   |-> st.count + 1]

RECURSIVE discoverFrom(_, _, _)

discoverFrom(dir, i, st) ==
    IF i > Len(dir) THEN st
    ELSE discoverFrom(dir, i + 1, discoverFile(st, dir[i]))

\* PluginManager::discover(path): dir is the list of candidate files found
\* at path (empty when the directory does not exist).  An insertion into
\* the hash may leave its iteration order any permutation of the keys.
Discover(dir) ==
    /\ alive
    /\ LET r == discoverFrom(dir, 1,
                    [map |-> m_pluginMap, loaders |-> m_loaders,
                     states |-> loaderState, prov |-> m_serviceProviderMap,
                     count |-> 0])
       IN /\ m_pluginMap' = r.map
          /\ m_loaders' = r.loaders
          /\ loaderState' = r.states
          /\ m_serviceProviderMap' = r.prov
          /\ IF r.count = 0 THEN hashOrder' = hashOrder
             ELSE hashOrder' \in Perms(DOMAIN r.map)
          /\ lastResult' = r.count
    /\ lastOp' = "discover"
    /\ repeated' = (lastOp = "discover")
    /\ UNCHANGED busVars
    /\ lastOrder' = << >>
    /\ calls' = << >>
    /\ errors' = {}
    /\ leaked' = {}
    /\ UNCHANGED alive

(***************************************************************************)
(* The forward phases.                                                     *)
(***************************************************************************)
\* faulty variant of loadOne that reports the unmet dependencies but goes on
\* to load the plugin (sensitivity of C10)
loadOne_NoSkip(id, st, okSet) ==
    LET r == load(st.states[id], id \in okSet)
        e == IF checkDependencies(m_pluginMap[id]) # << >>
             THEN {<< id, "Unsatisfied dependencies" >>} ELSE {}
    IN [st EXCEPT !.states = [@ EXCEPT ![id] = r.state],
                  !.calls = Append(@, << "load", id >>),
                  !.errors = @ \cup e
                               \cup (IF r.ret THEN {} ELSE {<< id, "load failed" >>}),
                  !.all = st.all /\ e = {} /\ r.ret]

\* the body of the loop of loadAll() for one id; st carries the loaders'
\* states, the calls made, the errors emitted and allLoaded; okSet holds
\* the ids whose call (Loadable.load(), initialize(), start()) succeeds when
\* it is made, every other call failing
loadOne(id, st, okSet) ==
    IF checkDependencies(m_pluginMap[id]) # << >>
    THEN [st EXCEPT !.errors = @ \cup {<< id, "Unsatisfied dependencies" >>},
                    !.all = FALSE]
    ELSE LET r == load(st.states[id], id \in okSet) IN
         IF ~r.ret
         THEN [st EXCEPT !.states = [@ EXCEPT ![id] = r.state],
                         !.calls = Append(@, << "load", id >>),
                         !.errors = @ \cup {<< id, "load failed" >>},
                         !.all = FALSE]
         ELSE [st EXCEPT !.states = [@ EXCEPT ![id] = r.state],
                         !.calls = Append(@, << "load", id >>)]

\* faulty variant of initializeOne without the state() >= Initialized guard
\* (sensitivity of C12)
initializeOne_NoStateGuard(id, st, okSet) ==
    IF ~isLoaded(st.states[id]) THEN st
    ELSE IF id \notin okSet
    THEN [st EXCEPT !.calls = Append(@, << "initialize", id >>),
                    !.errors = @ \cup {<< id, "Initialization failed" >>},
                    !.all = FALSE]
    ELSE [st EXCEPT !.states = [@ EXCEPT ![id] = "Initialized"],
                    !.calls = Append(@, << "initialize", id >>)]

\* faulty variant of initializeOne that reports a failed initialize() but
\* leaves allInitialized alone (sensitivity of C11)
initializeOne_ForgetsFailure(id, st, okSet) ==
    IF ~isLoaded(st.states[id]) THEN st
    ELSE IF st.states[id] \in {"Initialized", "Started"} THEN st
    ELSE IF id \notin okSet
    THEN [st EXCEPT !.calls = Append(@, << "initialize", id >>),
                    !.errors = @ \cup {<< id, "Initialization failed" >>}]
    ELSE [st EXCEPT !.states = [@ EXCEPT ![id] = "Initialized"],
                    !.calls = Append(@, << "initialize", id >>)]

\* the body of the loop of initializeAll() for one id
initializeOne(id, st, okSet) ==
    IF ~isLoaded(st.states[id]) THEN st
    ELSE IF st.states[id] \in {"Initialized", "Started"} THEN st
    ELSE IF id \notin okSet
    THEN [st EXCEPT !.calls = Append(@, << "initialize", id >>),
                    !.errors = @ \cup {<< id, "Initialization failed" >>},
                    !.all = FALSE]
    ELSE [st EXCEPT !.states = [@ EXCEPT ![id] = "Initialized"],
                    !.calls = Append(@, << "initialize", id >>)]

\* the body of the loop of startAll() for one id
startOne(id, st, okSet) ==
    IF st.states[id] # "Initialized" THEN st
    ELSE IF id \notin okSet
    THEN [st EXCEPT !.calls = Append(@, << "start", id >>),
                    !.errors = @ \cup {<< id, "Start failed" >>},
                    !.all = FALSE]
    ELSE [st EXCEPT !.states = [@ EXCEPT ![id] = "Started"],
                    !.calls = Append(@, << "start", id >>)]

\* the body of the loop of stopAll() for one id
stopOne(id, st, okSet) ==
    IF st.states[id] # "Started" THEN st
    ELSE [st EXCEPT !.states = [@ EXCEPT ![id] = "Initialized"],
                    !.calls = Append(@, << "stop", id >>)]

\* the body of the loop of unloadAll() for one id
unloadOne(id, st, okSet) ==
    IF ~isLoaded(st.states[id]) THEN st
    ELSE [st EXCEPT !.states = [@ EXCEPT ![id] = unload(@[id])],
                    !.calls = Append(@, << "unload", id >>)]

\* faulty variant of teardownOrder that forgets std::reverse
\* (sensitivity of C7)
teardownOrder_NotReversed == computeLoadOrder

\* the order stopAll() and unloadAll() walk: the load order, reversed
teardownOrder == Reverse(computeLoadOrder)

RECURSIVE sweep(_, _, _, _, _)

\* for (const QString& id : order) { ... } of the phase named op
sweep(op, order, i, st, okSet) ==
    IF i > Len(order) THEN st
    ELSE sweep(op, order, i + 1,
               CASE op = "load"       -> loadOne(order[i], st, okSet)
                 [] op = "initialize" -> initializeOne(order[i], st, okSet)
                 [] op = "start"      -> startOne(order[i], st, okSet)
                 [] op = "stop"       -> stopOne(order[i], st, okSet)
                 [] op = "unload"     -> unloadOne(order[i], st, okSet),
               okSet)

start0(states) == [states |-> states, calls |-> << >>, errors |-> {}, all |-> TRUE]

\* PluginManager::loadAll
LoadAll ==
    /\ alive
    /\ \E okSet \in SUBSET { id \in DOMAIN m_pluginMap : ~isLoaded(loaderState[id]) } :
         LET order == computeLoadOrder
             r == sweep("load", order, 1, start0(loaderState), okSet)
         IN /\ loaderState' = r.states
            /\ calls' = r.calls
            /\ errors' = r.errors
            /\ lastResult' = r.all
            /\ lastOrder' = order
    /\ lastOp' = "loadAll"
    /\ repeated' = (lastOp = "loadAll")
    /\ UNCHANGED busVars
    /\ leaked' = {}
    /\ UNCHANGED << alive, m_pluginMap, hashOrder, m_loaders,
                    m_serviceProviderMap >>

\* PluginManager::initializeAll
InitializeAll ==
    /\ alive
    /\ \E okSet \in SUBSET { id \in DOMAIN m_pluginMap : loaderState[id] = "Loaded" } :
         LET order == computeLoadOrder
             r == sweep("initialize", order, 1, start0(loaderState), okSet)
         IN /\ loaderState' = r.states
            /\ calls' = r.calls
            /\ errors' = r.errors
            /\ lastResult' = r.all
            /\ lastOrder' = order
    /\ lastOp' = "initializeAll"
    /\ repeated' = (lastOp = "initializeAll")
    /\ UNCHANGED busVars
    /\ leaked' = {}
    /\ UNCHANGED << alive, m_pluginMap, hashOrder, m_loaders,
                    m_serviceProviderMap >>

\* PluginManager::startAll
StartAll ==
    /\ alive
    /\ \E okSet \in SUBSET { id \in DOMAIN m_pluginMap : loaderState[id] = "Initialized" } :
         LET order == computeLoadOrder
             r == sweep("start", order, 1, start0(loaderState), okSet)
         IN /\ loaderState' = r.states
            /\ calls' = r.calls
            /\ errors' = r.errors
            /\ lastResult' = r.all
            /\ lastOrder' = order
    /\ lastOp' = "startAll"
    /\ repeated' = (lastOp = "startAll")
    /\ UNCHANGED busVars
    /\ leaked' = {}
    /\ UNCHANGED << alive, m_pluginMap, hashOrder, m_loaders,
                    m_serviceProviderMap >>

(***************************************************************************)
(* The teardown phases and the destructor.                                 *)
(***************************************************************************)
\* the effect of stopAll() on the loaders' states, with the calls it makes
stopAll(states) == sweep("stop", teardownOrder, 1, start0(states), {})

\* the effect of the loop of unloadAll()
unloadAll(states) == sweep("unload", teardownOrder, 1, start0(states), {})

\* the loaders m_loaders.clear() destroys while their module is still loaded
stillLoaded(states) == { id \in DOMAIN states : isLoaded(states[id]) }

\* PluginManager::stopAll
StopAll ==
    /\ alive
    /\ LET r == stopAll(loaderState)
       IN /\ loaderState' = r.states
          /\ calls' = r.calls
    /\ errors' = {}
    /\ lastResult' = "void"
    /\ lastOrder' = teardownOrder
    /\ lastOp' = "stopAll"
    /\ repeated' = (lastOp = "stopAll")
    /\ UNCHANGED busVars
    /\ leaked' = {}
    /\ UNCHANGED << alive, m_pluginMap, hashOrder, m_loaders,
                    m_serviceProviderMap >>

\* faulty variant of unloadAll() that clears the id map and the loader list
\* but keeps the provider map (sensitivity of C38)
UnloadAll_KeepsProviders ==
    /\ alive
    /\ LET r == unloadAll(loaderState)
       IN /\ calls' = r.calls
          /\ leaked' = stillLoaded(r.states)
    /\ m_pluginMap' = << >>
    /\ hashOrder' = << >>
    /\ m_loaders' = << >>
    /\ loaderState' = << >>
    /\ m_serviceProviderMap' = m_serviceProviderMap
    /\ errors' = {}
    /\ lastResult' = "void"
    /\ lastOrder' = teardownOrder
    /\ lastOp' = "unloadAll"
    /\ repeated' = (lastOp = "unloadAll")
    /\ UNCHANGED busVars
    /\ UNCHANGED alive

\* PluginManager::unloadAll
UnloadAll ==
    /\ alive
    /\ LET r == unloadAll(loaderState)
       IN /\ calls' = r.calls
          /\ leaked' = stillLoaded(r.states)
    /\ m_pluginMap' = << >>
    /\ hashOrder' = << >>
    /\ m_loaders' = << >>
    /\ loaderState' = << >>
    /\ m_serviceProviderMap' = << >>
    /\ errors' = {}
    /\ lastResult' = "void"
    /\ lastOrder' = teardownOrder
    /\ lastOp' = "unloadAll"
    /\ repeated' = (lastOp = "unloadAll")
    /\ UNCHANGED busVars
    /\ UNCHANGED alive

\* PluginManager::~PluginManager: stopAll(); unloadAll();
Destroy ==
    /\ alive
    /\ LET r1 == stopAll(loaderState)
           r2 == unloadAll(r1.states)
       IN /\ calls' = r1.calls \o r2.calls
          /\ leaked' = stillLoaded(r2.states)
    /\ alive' = FALSE
    /\ m_pluginMap' = << >>
    /\ hashOrder' = << >>
    /\ m_loaders' = << >>
    /\ loaderState' = << >>
    /\ m_serviceProviderMap' = << >>
    /\ errors' = {}
    /\ lastResult' = "void"
    /\ lastOrder' = teardownOrder
    /\ lastOp' = "destroy"
    /\ repeated' = (lastOp = "destroy")
    /\ UNCHANGED busVars

\* PluginManager::loadOrder
LoadOrder ==
    /\ alive
    /\ lastOp' = "loadOrder"
    /\ repeated' = (lastOp = "loadOrder")
    /\ UNCHANGED busVars
    /\ lastOrder' = loadOrder
    /\ lastResult' = loadOrder
    /\ calls' = << >>
    /\ errors' = {}
    /\ leaked' = {}
    /\ UNCHANGED << alive, m_pluginMap, hashOrder, m_loaders, loaderState,
                    m_serviceProviderMap >>

Init ==
    /\ InitBus
    /\ alive = TRUE
    /\ m_pluginMap = << >>
    /\ hashOrder = << >>
    /\ m_loaders = << >>
    /\ loaderState = << >>
    /\ m_serviceProviderMap = << >>
    /\ leaked = {}
    /\ lastOp = "new"
    /\ repeated = FALSE
    /\ lastResult = "void"
    /\ lastOrder = << >>
    /\ calls = << >>
    /\ errors = {}

Next ==
    \/ \E dir \in Dirs : Discover(dir)
    \/ LoadAll
    \/ InitializeAll
    \/ StartAll
    \/ StopAll
    \/ UnloadAll
    \/ Destroy
    \/ LoadOrder

Spec == Init /\ [][Next]_vars

(***************************************************************************)
(* Part 2: the event bus.  Topics and patterns are sequences of            *)
(* characters; a compiled pattern is the sequence of the atoms of the      *)
(* regular expression compilePattern() builds.                             *)
(***************************************************************************)
\* the characters QRegularExpression::escape() leaves alone, as far as the
\* model's topics and patterns use them
Word == {"a", "c", "o", "r"}

\* QRegularExpression::escape() of one character
Escape(c) ==
    CASE c \in Word -> c
      [] c = "*"    -> "\\*"
      [] c = "/"    -> "\\/"
      [] c = "\n"   -> "\\\n"
      [] OTHER      -> c

escape(pattern) == [i \in 1..Len(pattern) |-> Escape(pattern[i])]

RECURSIVE replace(_, _, _)

\* QString::replace(before, after): every occurrence, left to right
replace(s, before, after) ==
    IF Len(s) < Len(before) THEN s
    ELSE IF SubSeq(s, 1, Len(before)) = before
    THEN after \o replace(SubSeq(s, Len(before) + 1, Len(s)), before, after)
    ELSE << s[1] >> \o replace(Tail(s), before, after)

\* EventBusService::compilePattern
compilePattern(pattern) ==
    LET r0 == escape(pattern)
        r1 == replace(r0, << "\\*", "\\*" >>, << "<<DOUBLE_STAR>>" >>)
        r2 == replace(r1, << "\\*" >>, << "[^/]+" >>)
        r3 == replace(r2, << "<<DOUBLE_STAR>>" >>, << ".+" >>)
    IN << "^" >> \o r3 \o << "$" >>

RECURSIVE matchFrom(_, _, _, _)

\* the atoms re[i..] match topic[j..] up to the end of the subject; "$"
\* also matches before a newline that ends the subject, "." matches no
\* newline
matchFrom(re, i, topic, j) ==
    IF re[i] = "$"
    THEN j > Len(topic) \/ (j = Len(topic) /\ topic[j] = "\n")
    ELSE IF re[i] = "[^/]+"
    THEN \E k \in j..Len(topic) :
            /\ \A m \in j..k : topic[m] # "/"
            /\ matchFrom(re, i + 1, topic, k + 1)
    ELSE IF re[i] = ".+"
    THEN \E k \in j..Len(topic) :
            /\ \A m \in j..k : topic[m] # "\n"
            /\ matchFrom(re, i + 1, topic, k + 1)
    ELSE /\ j <= Len(topic)
         /\ re[i] = Escape(topic[j])
         /\ matchFrom(re, i + 1, topic, j + 1)

\* regex.match(topic).hasMatch() for a pattern compiled by compilePattern:
\* anchored at the start of the subject
hasMatch(regex, topic) == matchFrom(regex, 2, topic, 1)

\* EventBusService::matchesTopic
matchesTopic(topic, pattern) == hasMatch(compilePattern(pattern), topic)

\* the sequences over the characters C of length up to n
RECURSIVE Strings(_, _)

Strings(C, n) ==
    IF n = 0 THEN { << >> }
    ELSE LET shorter == Strings(C, n - 1)
         IN shorter \cup { Append(x, c) : x \in shorter, c \in C }

\* the topics and the patterns matchesTopic is called with: segments of
\* a letter, separators, a line feed; stars in the patterns
MatchTopics == Strings({"o", "/", "\n"}, MaxTopicLen)

MatchPatterns == Strings({"o", "/", "*"}, MaxPatternLen)

(***************************************************************************)
(* The callers of the bus and what they pass in.                           *)
(***************************************************************************)
Owners == {"p", "q"}

Options(priority, async, receiveOwnEvents) ==
    [priority |-> priority, async |-> async, receiveOwnEvents |-> receiveOwnEvents]

\* The subscribe() calls made.  A handler is named by what it does when it
\* is invoked: "returns", "throws" (it raises an exception), or "null" (an
\* empty std::function).  Two of the subscriptions share a priority, two an
\* owner, one is delivered through the event queue and takes its owner's
\* events; the same call can be made twice.
SubArgs ==
    { [pattern |-> << "o", "/", "c" >>, subscriberId |-> "p",
       handler |-> "returns", options |-> Options(0, FALSE, FALSE)],
      [pattern |-> << "o", "/", "*" >>, subscriberId |-> "q",
       handler |-> "throws", options |-> Options(1, FALSE, FALSE)],
      [pattern |-> << "*", "*" >>, subscriberId |-> "p",
       handler |-> "returns", options |-> Options(1, TRUE, TRUE)],
      [pattern |-> << "o" >>, subscriberId |-> "p",
       handler |-> "null", options |-> Options(0, TRUE, FALSE)] }

\* the subscribe() calls made on the bus whose statistics are followed
CountedSubArgs == { a \in SubArgs : a.subscriberId = "q" }

\* the topics events are published on, and their senders
EventTopics == { << "o", "/", "c" >>, << "o" >> }

Senders == {"p"}

\* subscribe() calls of subscribers with and without a subscriberId, for
\* events published without a senderId (the default argument)
AnonSubArgs ==
    { [pattern |-> << "o", "/", "c" >>, subscriberId |-> "",
       handler |-> "returns", options |-> Options(0, FALSE, FALSE)],
      [pattern |-> << "o", "/", "c" >>, subscriberId |-> "",
       handler |-> "returns", options |-> Options(0, FALSE, TRUE)],
      [pattern |-> << "o", "/", "*" >>, subscriberId |-> "q",
       handler |-> "throws", options |-> Options(1, FALSE, FALSE)],
      [pattern |-> << "*", "*" >>, subscriberId |-> "q",
       handler |-> "returns", options |-> Options(0, TRUE, FALSE)] }

AnonSenders == {""}

\* the registerHandler() calls made
RegArgs ==
    { [topic |-> << "r" >>, handlerId |-> "p", handler |-> "returns"],
      [topic |-> << "r" >>, handlerId |-> "q", handler |-> "throws"],
      [topic |-> << "r" >>, handlerId |-> "q", handler |-> "null"],
      [topic |-> << >>, handlerId |-> "p", handler |-> "returns"] }

RequestTopics == { << "r" >> }

\* the same with a second topic, for the bus used for requests alone
RegArgsAll ==
    RegArgs \cup
       { [topic |-> << "a" >>, handlerId |-> "q", handler |-> "returns"],
         [topic |-> << "a" >>, handlerId |-> "p", handler |-> "returns"] }

RequestTopicsAll == RequestTopics \cup { << "a" >> }

(***************************************************************************)
(* Containers.                                                             *)
(***************************************************************************)
\* QHash::insert / operator[] assignment
Put(f, k, v) == [x \in DOMAIN f \cup {k} |-> IF x = k THEN v ELSE f[x]]

\* faulty variant of Without that removes nothing (sensitivity of C36)
Without_Nothing(f, K) == f

\* QHash::remove of the keys K
Without(f, K) == [x \in DOMAIN f \ K |-> f[x]]

\* QHash::value(k): the entry, or a default-constructed value
ValueOr(f, k, default) == IF k \in DOMAIN f THEN f[k] ELSE default

\* faulty variant of removeAll that leaves the list as it is (sensitivity
\* of C35)
removeAll_Nothing(s, x) == s

\* QList::removeAll
removeAll(s, x) == SelectSeq(s, LAMBDA y : y # x)

RECURSIVE ascending(_)

\* the elements of a set of subscription ids as a list
ascending(S) ==
    IF S = {} THEN << >>
    ELSE LET m == CHOOSE x \in S : \A y \in S : x <= y
         IN << m >> \o ascending(S \ {m})

RECURSIVE totalEvents(_, _)

\* the sum of eventCount over the topics T of stats
totalEvents(stats, T) ==
    IF T = {} THEN 0
    ELSE LET k == CHOOSE x \in T : TRUE
         IN stats[k].eventCount + totalEvents(stats, T \ {k})

(***************************************************************************)
(* Calls in progress.  A frame is a publish()/publishSync() inside         *)
(* deliverEvent, a request() inside its handler, or a queued functor       *)
(* inside its handler; pc says where it stands.                            *)
(***************************************************************************)
Top(t) == frames[t][Len(frames[t])]

\* a subscriber handler or a request handler is running on thread t
InHandler(t) == frames[t] # << >> /\ Top(t).pc = "handler"

\* thread t can make a bus call: from its own code, or from the handler it
\* is running
CanCall(t) == running /\ (frames[t] = << >> \/ InHandler(t))

\* the call thread t makes now comes from a handler
Nested(t) == frames[t] # << >>

Inflight == Cardinality(UNION { { << t, i >> : i \in 1..Len(frames[t]) } : t \in Threads })

Push(t, f) == [frames EXCEPT ![t] = Append(@, f)]

Pop(t) == [frames EXCEPT ![t] = SubSeq(@, 1, Len(@) - 1)]

SetTop(t, f) == [frames EXCEPT ![t] = [@ EXCEPT ![Len(@)] = f]]

\* the thread the bus object lives in; its event loop runs the functors
\* queued with Qt::QueuedConnection
HomeThread == 1

(***************************************************************************)
(* subscribe / unsubscribe / unsubscribeAll.  A QMutexLocker scope is one  *)
(* step: it needs the mutex free and leaves it free.                       *)
(***************************************************************************)
\* faulty variant of isNull: no handler is taken as null (sensitivity of
\* C31)
isNull_Never(handler) == FALSE

\* !handler, of a std::function
isNull(handler) == handler = "null"

\* QUuid::createUuid: an id no earlier call was given
createUuid == nextSub

\* EventBusService::totalSubscribers
totalSubscribers == Cardinality(DOMAIN m_subscriptions)

\* EventBusService::subscriptionsFor
subscriptionsFor(subscriberId) == ValueOr(m_subscriberIndex, subscriberId, << >>)

\* EventBusService::subscribe; the id returned is 0 for the empty string
Subscribe(t, a) ==
    /\ CanCall(t)
    /\ IF isNull(a.handler)
       THEN /\ step' = Step("subscribe", Nested(t), "none", FALSE,
                            "subscribe", "return", 0, a)
            /\ UNCHANGED << m_mutex, m_subscriptions, m_subscriberIndex, nextSub >>
       ELSE /\ nextSub <= MaxSubs
            /\ m_mutex = 0
            /\ m_subscriptions' =
                  Put(m_subscriptions, createUuid,
                      [id |-> createUuid, pattern |-> a.pattern,
                       subscriberId |-> a.subscriberId, options |-> a.options,
                       regex |-> compilePattern(a.pattern), handler |-> a.handler])
            /\ m_subscriberIndex' =
                  Put(m_subscriberIndex, a.subscriberId,
                      Append(ValueOr(m_subscriberIndex, a.subscriberId, << >>),
                             createUuid))
            /\ nextSub' = nextSub + 1
            /\ m_mutex' = 0
            /\ step' = Emitting(Step("subscribe", Nested(t), "locked", FALSE,
                                     "subscribe", "return", createUuid, a), 3)
    /\ UNCHANGED << running, m_topicStats, m_requestHandlers, m_handlerIndex,
                    frames, eventQueue >>
    /\ UNCHANGED managerVars
    /\ UNCHANGED dataVars

\* EventBusService::unsubscribe
Unsubscribe(t, subscriptionId) ==
    /\ CanCall(t)
    /\ m_mutex = 0
    /\ IF subscriptionId \notin DOMAIN m_subscriptions
       THEN /\ step' = Step("unsubscribe", Nested(t), "locked", FALSE,
                            "unsubscribe", "return", FALSE,
                            [subscriptionId |-> subscriptionId])
            /\ UNCHANGED << m_subscriptions, m_subscriberIndex >>
       ELSE LET subscriberId == m_subscriptions[subscriptionId].subscriberId
                rest == removeAll(ValueOr(m_subscriberIndex, subscriberId, << >>),
                                  subscriptionId)
            IN /\ m_subscriptions' = Without(m_subscriptions, {subscriptionId})
               /\ m_subscriberIndex' =
                     IF rest = << >> THEN Without(m_subscriberIndex, {subscriberId})
                     ELSE Put(m_subscriberIndex, subscriberId, rest)
               /\ step' = Emitting(Step("unsubscribe", Nested(t), "locked", FALSE,
                                        "unsubscribe", "return", TRUE,
                                        [subscriptionId |-> subscriptionId]), 3)
    /\ m_mutex' = 0
    /\ UNCHANGED << running, m_topicStats, m_requestHandlers, m_handlerIndex,
                    nextSub, frames, eventQueue >>
    /\ UNCHANGED managerVars
    /\ UNCHANGED dataVars

\* the signals unsubscribeAll emits: subscriptionRemoved for each id, then
\* subscribersChanged and topicsChanged when there was any
signalsOf(ids) == Len(ids) + (IF ids # << >> THEN 2 ELSE 0)

\* faulty variant of UnsubscribeAll: the subscriptions of the other owners
\* go too (sensitivity of C27)
UnsubscribeAll_ClearsTable(t, subscriberId) ==
    /\ CanCall(t)
    /\ m_mutex = 0
    /\ LET ids == ValueOr(m_subscriberIndex, subscriberId, << >>)
       IN /\ m_subscriberIndex' = Without(m_subscriberIndex, {subscriberId})
          /\ m_subscriptions' = << >>
          /\ step' = Emitting(Step("unsubscribeAll", Nested(t), "locked", FALSE,
                                   "unsubscribeAll", "return", signalsOf(ids),
                                   [subscriberId |-> subscriberId]),
                              signalsOf(ids))
    /\ m_mutex' = 0
    /\ UNCHANGED << running, m_topicStats, m_requestHandlers, m_handlerIndex,
                    nextSub, frames, eventQueue >>
    /\ UNCHANGED managerVars
    /\ UNCHANGED dataVars

\* EventBusService::unsubscribeAll; ret is the number of signals it emits
UnsubscribeAll(t, subscriberId) ==
    /\ CanCall(t)
    /\ m_mutex = 0
    /\ LET ids == ValueOr(m_subscriberIndex, subscriberId, << >>)
       IN /\ m_subscriberIndex' = Without(m_subscriberIndex, {subscriberId})
          /\ m_subscriptions' = Without(m_subscriptions, Range(ids))
          /\ step' = Emitting(Step("unsubscribeAll", Nested(t), "locked", FALSE,
                                   "unsubscribeAll", "return", signalsOf(ids),
                                   [subscriberId |-> subscriberId]),
                              signalsOf(ids))
    /\ m_mutex' = 0
    /\ UNCHANGED << running, m_topicStats, m_requestHandlers, m_handlerIndex,
                    nextSub, frames, eventQueue >>
    /\ UNCHANGED managerVars
    /\ UNCHANGED dataVars

(***************************************************************************)
(* publish / publishSync: deliverEvent, one step per stretch of code that  *)
(* other threads, or the handler just invoked, can interleave with.  The   *)
(* list `matches` holds pointers into m_subscriptions: here the ids of the *)
(* nodes.  A pointer whose node was erased is dangling; reading through it *)
(* is undefined behaviour, taken as either outcome a build can show: the   *)
(* freed node still reads as it did (snap keeps what it held), or the      *)
(* process crashes.                                                        *)
(***************************************************************************)
\* EventBusService::findMatchingSubscriptions: the nodes whose regex matches
findMatchingSubscriptions(topic) ==
    { id \in DOMAIN m_subscriptions : hasMatch(m_subscriptions[id].regex, topic) }

\* faulty variant of snapshotScopeEnd: the locker outlives the block, the
\* mutex stays with the thread through the delivery (sensitivity of C19)
snapshotScopeEnd_LockKept(t) == t

\* the holder of the mutex when the block of deliverEvent that takes the
\* snapshot is left: the QMutexLocker is destroyed with it
snapshotScopeEnd(t) == 0

\* the Subscription a pointer of the frame reads
deref(f, id) ==
    IF id \in DOMAIN m_subscriptions THEN m_subscriptions[id] ELSE f.snap[id]

\* the pointers of the frame that dangle
danglingOf(f) == { id \in Range(f.matches) : id \notin DOMAIN m_subscriptions }

\* the events published so far
Published == totalEvents(m_topicStats, DOMAIN m_topicStats)

\* faulty variant of recordEvent: the count starts again with every event
\* (sensitivity of C28)
recordEvent_Restarts(stats, topic) ==
    Put(stats, topic, [topic |-> topic, eventCount |-> 1])

\* deliverEvent: m_topicStats[event.topic], default-constructed when the
\* topic is new, counts the event
recordEvent(stats, topic) ==
    LET old == ValueOr(stats, topic, [topic |-> topic, eventCount |-> 0])
    IN Put(stats, topic, [old EXCEPT !.eventCount = @ + 1])

\* EventBusService::topicStats
topicStats(topic) ==
    [topic |-> topic,
     subscriberCount |-> Cardinality(findMatchingSubscriptions(topic)),
     eventCount |-> IF topic \in DOMAIN m_topicStats
                    THEN m_topicStats[topic].eventCount ELSE 0]

\* QDateTime::currentMSecsSinceEpoch() when an event is built: the clock
\* is the number of events published so far, so that every event carries
\* its own time
currentMSecsSinceEpoch == Published + 1

(***************************************************************************)
(* Event data.  A QVariantMap is a handle on a payload; copying the map    *)
(* makes a second handle on the same payload (implicit sharing), and a     *)
(* write through a handle whose payload is shared first gives the handle a *)
(* payload of its own (detach).  A payload lives as long as a handle names *)
(* it.  What a map holds is "sent", as published, or "changed".            *)
(***************************************************************************)
\* the payload made for the event published at ts (kind "event"), for the
\* copy of it queued for subscription `of` ("copy"), or by the detach of
\* holder `of` ("own")
Payload(kind, ts, of) == [kind |-> kind, ts |-> ts, of |-> of]

\* the calls that carry an Event: a delivery and a queued functor
carriesData(f) == f.kind \in {"deliver", "queued"}

\* the payloads the frames, the queue entries and the holders name
Refs(fr, q, hd) ==
    UNION { { fr[t][i].data : i \in { k \in 1..Len(fr[t]) : carriesData(fr[t][k]) } } :
            t \in Threads }
       \cup { q[i].data : i \in 1..Len(q) }
       \cup { hd[h] : h \in DOMAIN hd }

\* the number of handles on a payload
refCount(payload) ==
    Cardinality({ ti \in UNION { { << t, k >> : k \in 1..Len(frames[t]) } : t \in Threads } :
                     /\ carriesData(frames[ti[1]][ti[2]])
                     /\ frames[ti[1]][ti[2]].data = payload })
       + Cardinality({ i \in 1..Len(eventQueue) : eventQueue[i].data = payload })
       + Cardinality({ h \in DOMAIN held : held[h] = payload })

\* the payloads that still have a handle
Collect(h, fr, q, hd) == [payload \in Refs(fr, q, hd) |-> h[payload]]

\* faulty variant of isShared: no payload is taken as shared, so every
\* write goes to the payload in place (sensitivity of C32)
isShared_Never(payload) == FALSE

\* QMap's test before a write: another handle names the payload
isShared(payload) == refCount(payload) > 1

\* CrossDllSafety::deepCopy of a map: a payload of its own, holding the same
deepCopy(h, from, to) == Put(h, to, h[from])

\* publish() / publishSync() up to the end of the locked block of
\* deliverEvent: statistics, snapshot of the matching subscriptions, and
\* `return 0` when there is none
Publish(t, topic, senderId, synchronous) ==
    /\ CanCall(t)
    /\ m_mutex = 0
    /\ LET call == IF synchronous THEN "publishSync" ELSE "publish"
           found == findMatchingSubscriptions(topic)
           timestamp == currentMSecsSinceEpoch
           data == Payload("event", timestamp, 0)
       IN /\ m_topicStats' = recordEvent(m_topicStats, topic)
          /\ m_mutex' = snapshotScopeEnd(t)
          /\ held' = Put(held, 0, data)
          /\ IF found = {}
             THEN /\ frames' = frames
                  /\ step' = Step(call, Nested(t), "locked", FALSE,
                                  call, "return", 0,
                                  [topic |-> topic, senderId |-> senderId])
             ELSE /\ Inflight < MaxInflight
                  /\ frames' =
                        Push(t, [kind |-> "deliver", call |-> call,
                                 synchronous |-> synchronous, topic |-> topic,
                                 senderId |-> senderId, data |-> data,
                                 timestamp |-> timestamp,
                                 snap |-> [id \in found |-> m_subscriptions[id]],
                                 matches |-> ascending(found), i |-> 0,
                                 notified |-> 0, invoked |-> << >>,
                                 queued |-> << >>, handler |-> "none",
                                 pc |-> "sort"])
                  /\ step' = Step(call, Nested(t), "locked", FALSE,
                                  "", "", "void",
                                  [topic |-> topic, senderId |-> senderId])
    /\ UNCHANGED << running, m_subscriptions, m_subscriberIndex,
                    m_requestHandlers, m_handlerIndex, nextSub, eventQueue >>
    /\ UNCHANGED managerVars
    /\ heap' = Collect(Put(heap, Payload("event", currentMSecsSinceEpoch, 0), "sent"),
                       frames', eventQueue', held')

\* publish() / publishSync() on a bus that has seen fewer than max events
PublishUpTo(max, t, topic, senderId, synchronous) ==
    /\ Published < max
    /\ Publish(t, topic, senderId, synchronous)

\* the arrangements std::sort can leave the pointers in: descending by the
\* priority read through them; the hash iterates in no particular order and
\* std::sort is not stable, so equal priorities come out in any order
sortedByPriority(f) ==
    { o \in Perms(Range(f.matches)) :
         \A i, j \in 1..Len(o) :
            i < j => deref(f, o[i]).options.priority >= deref(f, o[j]).options.priority }

\* the process dies on a read through a dangling pointer
Crash(t, op, f) ==
    /\ running' = FALSE
    /\ step' = Step(op, Len(frames[t]) > 1, "unlocked", TRUE,
                    f.call, "crash", "void", f)
    /\ UNCHANGED << frames, eventQueue >>

\* deliverEvent, std::sort of the matches (after the locked block)
Sort(t) ==
    /\ running
    /\ frames[t] # << >>
    /\ Top(t).pc = "sort"
    /\ LET f == Top(t)
           reads == Len(f.matches) >= 2
           dangling == reads /\ danglingOf(f) # {}
       IN \/ /\ dangling
             /\ Crash(t, "sort", f)
          \/ /\ \E o \in sortedByPriority(f) :
                   frames' = SetTop(t, [f EXCEPT !.matches = o, !.i = 1, !.pc = "loop"])
             /\ step' = Step("sort", Len(frames[t]) > 1,
                             IF reads THEN "unlocked" ELSE "none", dangling,
                             "", "", "void", << >>)
             /\ UNCHANGED << running, eventQueue >>
    /\ UNCHANGED << m_mutex, m_subscriptions, m_subscriberIndex, m_topicStats,
                    m_requestHandlers, m_handlerIndex, nextSub >>
    /\ UNCHANGED managerVars
    /\ UNCHANGED dataVars

\* deliverEvent hands the event to the event queue instead of calling the
\* handler
queues(sub, synchronous) == sub.options.async /\ ~synchronous

\* deliverEvent, one turn of the loop over the matches up to the call of
\* the handler, or `return notified` after the last turn
Deliver(t) ==
    /\ running
    /\ frames[t] # << >>
    /\ Top(t).pc = "loop"
    /\ LET f == Top(t)
           nested == Len(frames[t]) > 1
       IN IF f.i > Len(f.matches)
          THEN /\ frames' = Pop(t)
               /\ step' = Step("deliver", nested, "none", FALSE,
                               f.call, "return", f.notified, f)
               /\ heap' = Collect(heap, frames', eventQueue, held)
               /\ UNCHANGED << running, eventQueue >>
          ELSE LET id == f.matches[f.i]
                   dangling == id \notin DOMAIN m_subscriptions
                   sub == deref(f, id)
                   eventCopy == Payload("copy", f.timestamp, id)
               IN \/ /\ dangling
                     /\ Crash(t, "deliver", f)
                     /\ heap' = heap
                  \/ /\ IF ~sub.options.receiveOwnEvents /\ sub.subscriberId = f.senderId
                        THEN /\ frames' = SetTop(t, [f EXCEPT !.i = @ + 1])
                             /\ eventQueue' = eventQueue
                             /\ heap' = heap
                        ELSE IF queues(sub, f.synchronous)
                        THEN /\ frames' = SetTop(t, [f EXCEPT !.i = @ + 1,
                                                              !.notified = @ + 1,
                                                              !.queued = Append(@, id)])
                             /\ eventQueue' =
                                   Append(eventQueue,
                                          [sub |-> id, handler |-> sub.handler,
                                           topic |-> f.topic, senderId |-> f.senderId,
                                           data |-> eventCopy,
                                           timestamp |-> f.timestamp])
                             /\ heap' = deepCopy(heap, f.data, eventCopy)
                        ELSE /\ frames' = SetTop(t, [f EXCEPT !.notified = @ + 1,
                                                              !.handler = sub.handler,
                                                              !.pc = "handler"])
                             /\ eventQueue' = eventQueue
                             /\ heap' = heap
                     /\ step' = Step("deliver", nested, "unlocked", dangling,
                                     "", "", "void", << >>)
                     /\ running' = running
    /\ UNCHANGED << m_mutex, m_subscriptions, m_subscriberIndex, m_topicStats,
                    m_requestHandlers, m_handlerIndex, nextSub >>
    /\ UNCHANGED managerVars
    /\ held' = held

\* how a handler can end: TRUE when it raises an exception.  A handler
\* named "throws" is one that can raise; it can also return.
Raises(handler) == IF handler = "throws" THEN {TRUE, FALSE} ELSE {FALSE}

\* faulty variant of requestOutcome: request() has no try block, what the
\* handler raises leaves request() (sensitivity of C25)
requestOutcome_Propagates(raised) ==
    IF raised THEN [how |-> "raise", ret |-> "void"]
    ELSE [how |-> "return", ret |-> "response"]

\* how request() ends once its handler has: the try block around the call
\* turns whatever the handler raises into std::nullopt
requestOutcome(raised) ==
    [how |-> "return", ret |-> IF raised THEN "nullopt" ELSE "response"]

\* the handler running on thread t ends: it returns, or it raises.  A
\* subscriber handler is called by deliverEvent with no try block around
\* it, so what it raises leaves publish()/publishSync(); request() catches
\* what its handler raises and returns nullopt; a queued functor raises
\* into the event loop.
HandlerEnd(t) ==
    /\ running
    /\ InHandler(t)
    /\ \E raised \in Raises(Top(t).handler) :
       LET f == Top(t)
           nested == Len(frames[t]) > 1
       IN CASE f.kind = "deliver" ->
                 IF raised
                 THEN /\ frames' = Pop(t)
                      /\ step' = Step("handlerEnd", nested, "none", FALSE,
                                      f.call, "raise", "void", f)
                 ELSE /\ frames' = SetTop(t, [f EXCEPT !.i = @ + 1,
                                                       !.invoked = Append(@, f.matches[f.i]),
                                                       !.pc = "loop"])
                      /\ step' = Step("handlerEnd", nested, "none", FALSE,
                                      "", "", "void", << >>)
            [] f.kind = "request" ->
                 /\ frames' = Pop(t)
                 /\ step' = Step("handlerEnd", nested, "none", FALSE,
                                 "request", requestOutcome(raised).how,
                                 requestOutcome(raised).ret,
                                 [f EXCEPT !.raised = raised])
            [] f.kind = "queued" ->
                 /\ frames' = Pop(t)
                 /\ step' = Step("handlerEnd", nested, "none", FALSE,
                                 "queued",
                                 IF raised THEN "raise" ELSE "return",
                                 "void", f)
    /\ UNCHANGED << running, m_mutex, m_subscriptions, m_subscriberIndex,
                    m_topicStats, m_requestHandlers, m_handlerIndex, nextSub,
                    eventQueue >>
    /\ UNCHANGED managerVars
    /\ heap' = Collect(heap, frames', eventQueue, held)
    /\ held' = held

\* faulty variant of ProcessQueued: the event loop drops the functor of a
\* subscription that is no longer in the table (sensitivity of C23)
ProcessQueued_SkipsUnsubscribed ==
    /\ running
    /\ eventQueue # << >>
    /\ frames[HomeThread] = << >>
    /\ frames' = IF Head(eventQueue).sub \in DOMAIN m_subscriptions
                 THEN Push(HomeThread,
                           [kind |-> "queued", call |-> "queued",
                            sub |-> Head(eventQueue).sub,
                            handler |-> Head(eventQueue).handler,
                            topic |-> Head(eventQueue).topic,
                            senderId |-> Head(eventQueue).senderId,
                            data |-> Head(eventQueue).data,
                            timestamp |-> Head(eventQueue).timestamp,
                            pc |-> "handler"])
                 ELSE frames
    /\ eventQueue' = Tail(eventQueue)
    /\ step' = Step("processQueued", FALSE, "none", FALSE,
                    "", "", "void", << >>)
    /\ UNCHANGED << running, m_mutex, m_subscriptions, m_subscriberIndex,
                    m_topicStats, m_requestHandlers, m_handlerIndex, nextSub >>
    /\ UNCHANGED managerVars
    /\ heap' = Collect(heap, frames', eventQueue', held)
    /\ held' = held

\* the event loop of the bus's thread takes the next queued functor and
\* calls the handler it captured with the event copy it captured
ProcessQueued ==
    /\ running
    /\ eventQueue # << >>
    /\ frames[HomeThread] = << >>
    /\ frames' = Push(HomeThread,
                      [kind |-> "queued", call |-> "queued",
                       sub |-> Head(eventQueue).sub,
                       handler |-> Head(eventQueue).handler,
                       topic |-> Head(eventQueue).topic,
                       senderId |-> Head(eventQueue).senderId,
                       data |-> Head(eventQueue).data,
                       timestamp |-> Head(eventQueue).timestamp, pc |-> "handler"])
    /\ eventQueue' = Tail(eventQueue)
    /\ step' = Step("processQueued", FALSE, "none", FALSE,
                    "", "", "void", << >>)
    /\ UNCHANGED << running, m_mutex, m_subscriptions, m_subscriberIndex,
                    m_topicStats, m_requestHandlers, m_handlerIndex, nextSub >>
    /\ UNCHANGED managerVars
    /\ UNCHANGED dataVars

(***************************************************************************)
(* What the subscribers and the publisher do with the data.                *)
(***************************************************************************)
\* the subscription whose handler the call f is running
current(f) == IF f.kind = "deliver" THEN f.matches[f.i] ELSE f.sub

\* the handler running on thread t keeps the data of its event: a copy of
\* Event::data, taken through the const Event& it was called with
KeepCopy(t) ==
    /\ running
    /\ InHandler(t)
    /\ carriesData(Top(t))
    /\ held' = Put(held, current(Top(t)), Top(t).data)
    /\ heap' = Collect(heap, frames, eventQueue, held')
    /\ step' = Step("keepCopy", TRUE, "none", FALSE, "", "", "void",
                    [holder |-> current(Top(t))])
    /\ UNCHANGED << running, m_mutex, m_subscriptions, m_subscriberIndex,
                    m_topicStats, m_requestHandlers, m_handlerIndex, nextSub,
                    frames, eventQueue >>
    /\ UNCHANGED managerVars

\* a holder changes the map it keeps: a subscriber its copy, the publisher
\* (holder 0) the map it published
WriteCopy(h) ==
    /\ running
    /\ h \in DOMAIN held
    /\ IF isShared(held[h])
       THEN /\ held' = Put(held, h, Payload("own", 0, h))
            /\ heap' = Collect(Put(heap, Payload("own", 0, h), "changed"),
                               frames, eventQueue, held')
       ELSE /\ held' = held
            /\ heap' = Put(heap, held[h], "changed")
    /\ step' = Step("writeCopy", FALSE, "none", FALSE, "", "", "void",
                    [holder |-> h])
    /\ UNCHANGED << running, m_mutex, m_subscriptions, m_subscriberIndex,
                    m_topicStats, m_requestHandlers, m_handlerIndex, nextSub,
                    frames, eventQueue >>
    /\ UNCHANGED managerVars

(***************************************************************************)
(* Request / response.                                                     *)
(***************************************************************************)
\* faulty variant of contains: no topic is ever seen as claimed
\* (sensitivity of C24)
contains_Never(table, key) == FALSE

\* QHash::contains
contains(table, key) == key \in DOMAIN table

\* EventBusService::registerHandler
RegisterHandler(t, a) ==
    /\ CanCall(t)
    /\ IF a.topic = << >> \/ a.handler = "null"
       THEN /\ step' = Step("registerHandler", Nested(t), "none", FALSE,
                            "registerHandler", "return", FALSE, a)
            /\ UNCHANGED << m_mutex, m_requestHandlers, m_handlerIndex >>
       ELSE /\ m_mutex = 0
            /\ IF contains(m_requestHandlers, a.topic)
               THEN /\ step' = Step("registerHandler", Nested(t), "locked", FALSE,
                                    "registerHandler", "return", FALSE, a)
                    /\ UNCHANGED << m_requestHandlers, m_handlerIndex >>
               ELSE /\ m_requestHandlers' =
                          Put(m_requestHandlers, a.topic,
                              [topic |-> a.topic, handlerId |-> a.handlerId,
                               handler |-> a.handler])
                    /\ m_handlerIndex' =
                          Put(m_handlerIndex, a.handlerId,
                              Append(ValueOr(m_handlerIndex, a.handlerId, << >>), a.topic))
                    /\ step' = Step("registerHandler", Nested(t), "locked", FALSE,
                                    "registerHandler", "return", TRUE, a)
            /\ m_mutex' = 0
    /\ UNCHANGED << running, m_subscriptions, m_subscriberIndex, m_topicStats,
                    nextSub, frames, eventQueue >>
    /\ UNCHANGED managerVars
    /\ UNCHANGED dataVars

\* EventBusService::unregisterHandler
UnregisterHandler(t, topic) ==
    /\ CanCall(t)
    /\ m_mutex = 0
    /\ IF topic \notin DOMAIN m_requestHandlers
       THEN /\ step' = Step("unregisterHandler", Nested(t), "locked", FALSE,
                            "unregisterHandler", "return", FALSE,
                            [topic |-> topic])
            /\ UNCHANGED << m_requestHandlers, m_handlerIndex >>
       ELSE LET handlerId == m_requestHandlers[topic].handlerId
                rest == removeAll(ValueOr(m_handlerIndex, handlerId, << >>), topic)
            IN /\ m_requestHandlers' = Without(m_requestHandlers, {topic})
               /\ m_handlerIndex' =
                     IF rest = << >> THEN Without(m_handlerIndex, {handlerId})
                     ELSE Put(m_handlerIndex, handlerId, rest)
               /\ step' = Step("unregisterHandler", Nested(t), "locked", FALSE,
                               "unregisterHandler", "return", TRUE,
                               [topic |-> topic])
    /\ m_mutex' = 0
    /\ UNCHANGED << running, m_subscriptions, m_subscriberIndex, m_topicStats,
                    nextSub, frames, eventQueue >>
    /\ UNCHANGED managerVars
    /\ UNCHANGED dataVars

\* EventBusService::hasHandler
hasHandler(topic) == contains(m_requestHandlers, topic)

\* faulty variant of unregisterAllHandlers: the topics of every handlerId are
\* freed (sensitivity of C30)
UnregisterAllHandlers_FreesEveryTopic(t, handlerId) ==
    /\ CanCall(t)
    /\ m_mutex = 0
    /\ m_handlerIndex' = << >>
    /\ m_requestHandlers' = << >>
    /\ step' = Step("unregisterAllHandlers", Nested(t), "locked", FALSE,
                    "unregisterAllHandlers", "return",
                    Len(ValueOr(m_handlerIndex, handlerId, << >>)),
                    [handlerId |-> handlerId])
    /\ m_mutex' = 0
    /\ UNCHANGED << running, m_subscriptions, m_subscriberIndex, m_topicStats,
                    nextSub, frames, eventQueue >>
    /\ UNCHANGED managerVars
    /\ UNCHANGED dataVars

\* EventBusService::unregisterAllHandlers; ret is the number of topics freed
UnregisterAllHandlers(t, handlerId) ==
    /\ CanCall(t)
    /\ m_mutex = 0
    /\ LET topics == ValueOr(m_handlerIndex, handlerId, << >>)
       IN /\ m_handlerIndex' = Without(m_handlerIndex, {handlerId})
          /\ m_requestHandlers' = Without(m_requestHandlers, Range(topics))
          /\ step' = Step("unregisterAllHandlers", Nested(t), "locked", FALSE,
                          "unregisterAllHandlers", "return", Len(topics),
                          [handlerId |-> handlerId])
    /\ m_mutex' = 0
    /\ UNCHANGED << running, m_subscriptions, m_subscriberIndex, m_topicStats,
                    nextSub, frames, eventQueue >>
    /\ UNCHANGED managerVars
    /\ UNCHANGED dataVars

\* EventBusService::request up to the call of the handler: the handler is
\* copied inside the locked block and called after it
Request(t, topic, senderId) ==
    /\ CanCall(t)
    /\ m_mutex = 0
    /\ IF topic \notin DOMAIN m_requestHandlers
       THEN /\ frames' = frames
            /\ step' = Step("request", Nested(t), "locked", FALSE,
                            "request", "return", "nullopt",
                            [topic |-> topic, senderId |-> senderId])
       ELSE /\ Inflight < MaxInflight
            /\ frames' = Push(t, [kind |-> "request", call |-> "request",
                                  topic |-> topic, senderId |-> senderId,
                                  handlerId |-> m_requestHandlers[topic].handlerId,
                                  handler |-> m_requestHandlers[topic].handler,
                                  raised |-> FALSE,
                                  pc |-> "handler"])
            /\ step' = Step("request", Nested(t), "locked", FALSE,
                            "", "", "void",
                            [topic |-> topic, senderId |-> senderId])
    /\ m_mutex' = 0
    /\ UNCHANGED << running, m_subscriptions, m_subscriberIndex, m_topicStats,
                    m_requestHandlers, m_handlerIndex, nextSub, eventQueue >>
    /\ UNCHANGED managerVars
    /\ UNCHANGED dataVars

NextBus ==
    \/ \E t \in Threads, a \in SubArgs : Subscribe(t, a)
    \/ \E t \in Threads, id \in 0..MaxSubs : Unsubscribe(t, id)
    \/ \E t \in Threads, o \in Owners : UnsubscribeAll(t, o)
    \/ \E t \in Threads, topic \in EventTopics, sender \in Senders, sync \in BOOLEAN :
          PublishUpTo(MaxEvents, t, topic, sender, sync)
    \/ \E t \in Threads : Sort(t)
    \/ \E t \in Threads : Deliver(t)
    \/ \E t \in Threads : HandlerEnd(t)
    \/ ProcessQueued
    \/ \E t \in Threads, a \in RegArgs : RegisterHandler(t, a)
    \/ \E t \in Threads, topic \in RequestTopics : UnregisterHandler(t, topic)
    \/ \E t \in Threads, o \in Owners : UnregisterAllHandlers(t, o)
    \/ \E t \in Threads, topic \in RequestTopics, sender \in Senders :
          Request(t, topic, sender)

SpecBus == Init /\ [][NextBus]_vars

\* A living event loop: the loop of the bus's thread gets its
\* turn again and again (the queue is processed), every handler running on
\* that thread ends, at whatever depth of nested calls, and the deliveries
\* of that thread go on.
FairBus ==
    /\ SF_vars(ProcessQueued)
    /\ \A k \in 1..MaxInflight :
          SF_vars(HandlerEnd(HomeThread) /\ Len(frames[HomeThread]) = k)
    /\ WF_vars(Sort(HomeThread))
    /\ WF_vars(Deliver(HomeThread))

\* a call of EventBusService::matchesTopic, the one call made on a new
\* bus; it takes no lock and touches no table
MatchesTopic(topic, pattern) ==
    /\ running
    /\ step.op = "new"
    /\ step' = Step("matchesTopic", FALSE, "none", FALSE,
                    "matchesTopic", "return", matchesTopic(topic, pattern),
                    [topic |-> topic, pattern |-> pattern])
    /\ UNCHANGED << running, m_mutex, m_subscriptions, m_subscriberIndex,
                    m_topicStats, m_requestHandlers, m_handlerIndex, nextSub,
                    frames, eventQueue >>
    /\ UNCHANGED managerVars
    /\ UNCHANGED dataVars

\* the matcher alone, with any topic and pattern
NextMatch ==
    \E topic \in MatchTopics, pattern \in MatchPatterns : MatchesTopic(topic, pattern)

SpecMatch == Init /\ [][NextMatch]_vars

\* request/response alone, on a bus nobody subscribes to
NextReq ==
    \/ \E t \in Threads, a \in RegArgsAll : RegisterHandler(t, a)
    \/ \E t \in Threads, topic \in RequestTopicsAll : UnregisterHandler(t, topic)
    \/ \E t \in Threads, o \in Owners : UnregisterAllHandlers(t, o)
    \/ \E t \in Threads, topic \in RequestTopicsAll, sender \in Senders :
          Request(t, topic, sender)
    \/ \E t \in Threads : HandlerEnd(t)

SpecReq == Init /\ [][NextReq]_vars

\* the subscribe() calls that register a handler
HandlerSubArgs == { a \in SubArgs : ~isNull(a.handler) }

\* publish/subscribe with subscribers and a publisher that change the data
\* they keep
NextData ==
    \/ \E t \in Threads, a \in HandlerSubArgs : Subscribe(t, a)
    \/ \E t \in Threads, topic \in EventTopics, sender \in Senders, sync \in BOOLEAN :
          PublishUpTo(MaxEvents, t, topic, sender, sync)
    \/ \E t \in Threads : Sort(t)
    \/ \E t \in Threads : Deliver(t)
    \/ \E t \in Threads : HandlerEnd(t)
    \/ ProcessQueued
    \/ \E t \in Threads : KeepCopy(t)
    \/ \E h \in 0..MaxSubs : WriteCopy(h)

SpecData == Init /\ [][NextData]_vars

\* events published without a senderId, to subscribers with and without a
\* subscriberId
NextAnon ==
    \/ \E t \in Threads, a \in AnonSubArgs : Subscribe(t, a)
    \/ \E t \in Threads, topic \in EventTopics, sender \in AnonSenders, sync \in BOOLEAN :
          PublishUpTo(MaxEvents, t, topic, sender, sync)
    \/ \E t \in Threads : Sort(t)
    \/ \E t \in Threads : Deliver(t)
    \/ \E t \in Threads : HandlerEnd(t)
    \/ ProcessQueued

SpecAnon == Init /\ [][NextAnon]_vars

\* publishers, on a bus with a few subscriptions and a request handler
NextStats ==
    \/ \E t \in Threads, a \in CountedSubArgs : Subscribe(t, a)
    \/ \E t \in Threads, topic \in EventTopics, sender \in Senders, sync \in BOOLEAN :
          PublishUpTo(MaxCounted, t, topic, sender, sync)
    \/ \E t \in Threads : Sort(t)
    \/ \E t \in Threads : Deliver(t)
    \/ \E t \in Threads : HandlerEnd(t)
    \/ \E t \in Threads, a \in RegArgs : RegisterHandler(t, a)
    \/ \E t \in Threads, topic \in RequestTopics, sender \in Senders :
          Request(t, topic, sender)

SpecStats == Init /\ [][NextStats]_vars

\* publish/subscribe alone, on a bus nobody registers request handlers with
NextPubSub ==
    \/ \E t \in Threads, a \in SubArgs : Subscribe(t, a)
    \/ \E t \in Threads, id \in 0..MaxSubs : Unsubscribe(t, id)
    \/ \E t \in Threads, o \in Owners : UnsubscribeAll(t, o)
    \/ \E t \in Threads, topic \in EventTopics, sender \in Senders, sync \in BOOLEAN :
          PublishUpTo(MaxEvents, t, topic, sender, sync)
    \/ \E t \in Threads : Sort(t)
    \/ \E t \in Threads : Deliver(t)
    \/ \E t \in Threads : HandlerEnd(t)
    \/ ProcessQueued

SpecPubSubLive == Init /\ [][NextPubSub]_vars /\ FairBus

(***************************************************************************)
(* Vocabulary of the properties.                                           *)
(***************************************************************************)
Discovered == DOMAIN m_pluginMap

\* A requires B: by a plugin-kind dependency naming B, or by a service-kind
\* dependency whose registered provider is B
Requires(A, B) ==
    \E i \in 1..Len(m_pluginMap[A].requires) :
       LET d == m_pluginMap[A].requires[i] IN
       \/ d.type = "plugin" /\ d.id = B
       \/ /\ d.type = "service"
          /\ d.id \in DOMAIN m_serviceProviderMap
          /\ m_serviceProviderMap[d.id] = B

RECURSIVE PathWithin(_, _, _)

\* a dependency path of at least one and at most n edges leads from A to B
PathWithin(A, B, n) ==
    /\ n > 0
    /\ \/ Requires(A, B)
       \/ \E C \in Discovered : Requires(A, C) /\ PathWithin(C, B, n - 1)

DependsOn(A, B) == PathWithin(A, B, Cardinality(Discovered))

Acyclic == \A A \in Discovered : ~DependsOn(A, A)

\* x occurs in s, y occurs in s, and x comes first
Before(s, x, y) == \E i, j \in 1..Len(s) : s[i] = x /\ s[j] = y /\ i < j

Count(s, x) == Cardinality({ i \in 1..Len(s) : s[i] = x })

Called(kind, id) == << kind, id >> \in Range(calls)

(***************************************************************************)
(* C1. loadOrder() contains every discovered plugin id exactly once, also  *)
(* when the dependency graph has a cycle: a cycle excludes no plugin.      *)
(***************************************************************************)
C1_OrderHasEveryPlugin ==
    \A id \in Discovered : Count(loadOrder, id) = 1

(***************************************************************************)
(* C2. When the dependency graph of the discovered plugins is acyclic,     *)
(* loadOrder() places B before A whenever A requires B (by a plugin        *)
(* dependency, or by a service whose registered provider is B).            *)
(***************************************************************************)
C2_DependenciesFirst ==
    Acyclic =>
       \A A, B \in Discovered : Requires(A, B) => Before(loadOrder, B, A)

\* loadOrder() has answered for an acyclic set in which a plugin requires,
\* through a service, a plugin that the hash iterates after it
C2_Witness ==
    /\ lastOp = "loadOrder"
    /\ Acyclic
    /\ \E A, B \in Discovered :
          /\ Requires(A, B)
          /\ \E i \in 1..Len(m_pluginMap[A].requires) :
                m_pluginMap[A].requires[i].type = "service"
          /\ Before(hashOrder, A, B)
          /\ Before(lastResult, B, A)

(***************************************************************************)
(* C3. loadAll() returns true only if every discovered plugin is loaded    *)
(* when it returns.                                                        *)
(***************************************************************************)
C3_TrueOnlyIfAllLoaded ==
    (lastOp = "loadAll" /\ lastResult = TRUE) =>
       \A id \in Discovered : isLoaded(loaderState[id])

(***************************************************************************)
(* C4. A plugin's state changes only along Discovered -> Loaded ->         *)
(* Initialized -> Started and Started -> Initialized, and into Unloaded;   *)
(* a Started plugin is released only after stop() was invoked on it.       *)
(***************************************************************************)
AllowedSteps ==
    { << "Discovered", "Loaded" >>, << "Loaded", "Initialized" >>,
      << "Initialized", "Started" >>, << "Started", "Initialized" >> }

C4_NoStateSkipped ==
    [][ \A id \in DOMAIN loaderState :
           IF id \in DOMAIN loaderState'
           THEN \/ loaderState'[id] = loaderState[id]
                \/ << loaderState[id], loaderState'[id] >> \in AllowedSteps
           ELSE << "unload", id >> \in Range(calls') =>
                   \/ loaderState[id] \in {"Loaded", "Initialized"}
                   \/ /\ loaderState[id] = "Started"
                      /\ Before(calls', << "stop", id >>, << "unload", id >>) ]_vars

(***************************************************************************)
(* C5. After stopAll() returns no discovered plugin is Started, and stop() *)
(* was invoked exactly once on each plugin that was Started at the call.   *)
(***************************************************************************)
C5_StopAllStopsEveryStarted ==
    [][ lastOp' = "stopAll" =>
           /\ \A id \in DOMAIN loaderState' : loaderState'[id] # "Started"
           /\ \A id \in DOMAIN loaderState :
                 loaderState[id] = "Started" => Count(calls', << "stop", id >>) = 1 ]_vars

(***************************************************************************)
(* C6. When the manager is destroyed, stopAll() runs before unloadAll()    *)
(* and every loaded plugin has unload() invoked on it: no loaded module    *)
(* outlives the manager.                                                   *)
(***************************************************************************)
C6_DestroyUnloadsEveryLoaded ==
    lastOp = "destroy" =>
       /\ leaked = {}
       /\ \A i, j \in 1..Len(calls) :
             (calls[i][1] = "stop" /\ calls[j][1] = "unload") => i < j

(***************************************************************************)
(* C7. stopAll() and unloadAll() walk the reverse of the load order: the   *)
(* plugins they visit are stopped (unloaded) in the reverse of loadOrder(),*)
(* so of two visited plugins A and B with A requiring B, A comes first.    *)
(***************************************************************************)
StopCalls(order, states) ==
    [ i \in 1..Len(SelectSeq(order, LAMBDA id : states[id] = "Started")) |->
         << "stop", SelectSeq(order, LAMBDA id : states[id] = "Started")[i] >> ]

UnloadCalls(order, states) ==
    [ i \in 1..Len(SelectSeq(order, LAMBDA id : isLoaded(states[id]))) |->
         << "unload", SelectSeq(order, LAMBDA id : isLoaded(states[id]))[i] >> ]

C8_PriorityThenDiscoveryOrder ==
    Acyclic =>
       \A x, y \in Discovered :
          (x # y /\ ~DependsOn(x, y) /\ ~DependsOn(y, x)) =>
             /\ m_pluginMap[x].priority < m_pluginMap[y].priority
                   => Before(loadOrder, x, y)
             /\ (m_pluginMap[x].priority = m_pluginMap[y].priority
                    /\ Before(m_loaders, x, y))
                   => Before(loadOrder, x, y)

(***************************************************************************)
(* C9. Whenever startAll() invokes start() on a plugin, every discovered   *)
(* plugin that is loaded has completed initialize() successfully.          *)
(***************************************************************************)
C9_StartSeesAllInitialized ==
    (lastOp = "startAll" /\ \E id \in Discovered : Called("start", id)) =>
       \A id \in Discovered :
          isLoaded(loaderState[id]) => loaderState[id] \in {"Initialized", "Started"}

(***************************************************************************)
(* C10. In loadAll(), a plugin with an unmet mandatory dependency never    *)
(* has load() invoked and gets a per-plugin error; neither this nor a      *)
(* failing load() stops the sweep: every other plugin of the load order is *)
(* still attempted.                                                        *)
(***************************************************************************)
C10_UnmetSkippedSweepContinues ==
    lastOp = "loadAll" =>
       \A id \in Range(loadOrder) :
          IF checkDependencies(m_pluginMap[id]) # << >>
          THEN /\ ~Called("load", id)
               /\ << id, "Unsatisfied dependencies" >> \in errors
               /\ lastResult = FALSE
          ELSE Count(calls, << "load", id >>) = 1

\* a loadAll() in which one plugin was skipped for an unmet dependency, one
\* failed to load, and a plugin after both in the order was still loaded
C10_Witness ==
    /\ lastOp = "loadAll"
    /\ \E x, y, z \in Range(lastOrder) :
          /\ << x, "Unsatisfied dependencies" >> \in errors
          /\ ~Called("load", x)
          /\ << y, "load failed" >> \in errors
          /\ Before(lastOrder, x, z)
          /\ Before(lastOrder, y, z)
          /\ Called("load", z)
          /\ loaderState[z] = "Loaded"

(***************************************************************************)
(* C11. initializeAll() invokes initialize() only on plugins that are      *)
(* Loaded and not yet Initialized, at most once each, advances a plugin to *)
(* Initialized only when its initialize() returned true, goes on to every  *)
(* remaining plugin of the order after a failure, and returns false        *)
(* exactly when an invoked initialize() returned false; startAll() does    *)
(* the same with Initialized plugins, start() and Started.                 *)
(***************************************************************************)
PhaseSweep(kind, from, to, failure) ==
    /\ \A id \in Discovered :
          /\ Count(calls', << kind, id >>) <= 1
          /\ << kind, id >> \in Range(calls') => loaderState[id] = from
          /\ << id, failure >> \in errors' => << kind, id >> \in Range(calls')
          /\ IF << kind, id >> \in Range(calls') /\ << id, failure >> \notin errors'
             THEN loaderState'[id] = to
             ELSE loaderState'[id] = loaderState[id]
    /\ \A id \in Range(loadOrder) :
          loaderState[id] = from => << kind, id >> \in Range(calls')
    /\ lastResult' = FALSE <=> \E id \in Discovered : << id, failure >> \in errors'
    /\ lastResult' \in BOOLEAN

C11_PhaseInvokesAndReports ==
    [][ /\ lastOp' = "initializeAll" =>
              PhaseSweep("initialize", "Loaded", "Initialized", "Initialization failed")
        /\ lastOp' = "startAll" =>
              PhaseSweep("start", "Initialized", "Started", "Start failed") ]_vars

\* an initializeAll() in which initialize() failed on one plugin and a plugin
\* after it in the order was still initialized
C11_Witness ==
    /\ lastOp = "initializeAll"
    /\ lastResult = FALSE
    /\ \E x, y \in Range(lastOrder) :
          /\ Before(lastOrder, x, y)
          /\ << x, "Initialization failed" >> \in errors
          /\ loaderState[x] = "Loaded"
          /\ Called("initialize", y)
          /\ loaderState[y] = "Initialized"

(***************************************************************************)
(* C12. initializeAll(), startAll() and stopAll() called a second time     *)
(* with no call in between: the statement as claimed is that the second    *)
(* call invokes nothing on a plugin that already passed the phase and      *)
(* leaves every plugin's state unchanged.                                  *)
(***************************************************************************)
\* the step is a call of the operation that ran last
SecondCall(op) == lastOp = op /\ lastOp' = op

\* the plugins that passed the phase of op
Passed(op, id) ==
    CASE op = "initializeAll" -> loaderState[id] \in {"Initialized", "Started"}
      [] op = "startAll"      -> loaderState[id] = "Started"
      [] op = "stopAll"       -> loaderState[id] # "Started"

PhaseCall(op) ==
    CASE op = "initializeAll" -> "initialize"
      [] op = "startAll"      -> "start"
      [] op = "stopAll"       -> "stop"

C12_SecondCallChangesNothing ==
    [][ \A op \in {"initializeAll", "startAll", "stopAll"} :
           SecondCall(op) =>
              /\ \A id \in Discovered :
                    Passed(op, id) => << PhaseCall(op), id >> \notin Range(calls')
              /\ loaderState' = loaderState ]_vars

(***************************************************************************)
(* C12, as the code has it: the second call invokes nothing on a plugin    *)
(* that already passed the phase and leaves the state of every such plugin *)
(* unchanged; the plugins it does invoke are those whose initialize() or   *)
(* start() failed in the first call, and such a plugin advances when the   *)
(* retried call succeeds; a second stopAll() invokes nothing and changes   *)
(* no state.                                                               *)
(***************************************************************************)
C12_SecondCallSkipsSatisfied ==
    [][ /\ \A op \in {"initializeAll", "startAll", "stopAll"} :
              SecondCall(op) =>
                 \A id \in Discovered :
                    Passed(op, id) =>
                       /\ << PhaseCall(op), id >> \notin Range(calls')
                       /\ loaderState'[id] = loaderState[id]
        /\ SecondCall("initializeAll") =>
              \A id \in Discovered :
                 << "initialize", id >> \in Range(calls')
                    => << id, "Initialization failed" >> \in errors
        /\ SecondCall("startAll") =>
              \A id \in Discovered :
                 << "start", id >> \in Range(calls')
                    => << id, "Start failed" >> \in errors
        /\ SecondCall("stopAll") =>
              calls' = << >> /\ loaderState' = loaderState ]_vars

\* a second initializeAll() in a row has skipped a plugin the first call
\* initialized and has initialized a plugin the first call failed on
C12_Witness ==
    /\ lastOp = "initializeAll"
    /\ repeated
    /\ \E x, y \in Discovered :
          /\ Called("initialize", x)
          /\ loaderState[x] = "Initialized"
          /\ ~Called("initialize", y)
          /\ loaderState[y] = "Initialized"

(***************************************************************************)
(* C13. A loadAll() made when a plugin is already Loaded, Initialized or   *)
(* Started does not invoke load() on that plugin again and does not change *)
(* its state.                                                              *)
(***************************************************************************)
C13_LoadAllSkipsLoaded ==
    [][ lastOp' = "loadAll" =>
           \A id \in Discovered :
              isLoaded(loaderState[id]) =>
                 /\ << "load", id >> \notin Range(calls')
                 /\ loaderState'[id] = loaderState[id] ]_vars

(***************************************************************************)
(* C14. checkDependencies(metadata) returns exactly one descriptor for     *)
(* each mandatory dependency that is unmet and nothing else: "plugin:<id>" *)
(* for a plugin that is not discovered, "plugin:<id>>=<minVersion>" for a  *)
(* discovered plugin whose version is below minVersion, "service:<id>" for *)
(* a service with no registered provider; optional dependencies never      *)
(* appear.  Checked for the metadata of every candidate file and for a     *)
(* probe that mixes all the kinds.                                         *)
(***************************************************************************)
\* metadata with every kind of dependency: mandatory and optional, plugin
\* and service, with and without a minimum version the catalogue misses
Probe ==
    Meta("z", 1, {},
         << PluginDep("a", 2, FALSE), ServiceDep("s", 1, FALSE),
            PluginDep("c", 1, FALSE), ServiceDep("t", 1, TRUE),
            PluginDep("b", 1, TRUE), PluginDep("b", 2, FALSE) >>, 0)

Unmet(dep) ==
    /\ ~dep.optional
    /\ \/ /\ dep.type = "plugin"
          /\ \/ dep.id \notin Discovered
             \/ /\ dep.id \in Discovered
                /\ m_pluginMap[dep.id].version < dep.minVersion
       \/ /\ dep.type = "service"
          /\ dep.id \notin DOMAIN m_serviceProviderMap

Descriptor(dep) ==
    IF dep.type = "service" THEN << "service:", dep.id >>
    ELSE IF dep.id \notin Discovered THEN << "plugin:", dep.id >>
    ELSE << "plugin:", dep.id, ">=", dep.minVersion >>

C14_OneDescriptorPerUnmet ==
    \A metadata \in { f.meta : f \in Files } \cup {Probe} :
       LET unmet == SelectSeq(metadata.requires, Unmet)
       IN checkDependencies(metadata) = [ i \in 1..Len(unmet) |-> Descriptor(unmet[i]) ]

\* a state in which the probe has a version mismatch, a service without a
\* provider, a missing plugin and two unresolved optional dependencies
C14_Witness ==
    /\ lastOp = "discover"
    /\ checkDependencies(Probe) =
          << << "plugin:", "a", ">=", 2 >>, << "service:", "s" >>,
             << "plugin:", "c" >>, << "plugin:", "b" >> >>

(***************************************************************************)
(* C15. Across discover() calls a candidate whose id is already registered *)
(* is rejected and the plugin seen first is kept; every service name of    *)
(* the provider map stays mapped to the first accepted plugin that lists   *)
(* it in provides; a later plugin claiming the same service is still       *)
(* accepted as a plugin and counted.                                       *)
(***************************************************************************)
\* the manager's tables as the loop of discover() carries them
Tables ==
    [map |-> m_pluginMap, loaders |-> m_loaders, states |-> loaderState,
     prov |-> m_serviceProviderMap, count |-> 0]

\* every provided service is mapped, and mapped to the plugin that, of the
\* accepted plugins listing it, was accepted first
FirstProviderKept ==
    /\ \A id \in Discovered : m_pluginMap[id].provides \subseteq DOMAIN m_serviceProviderMap
    /\ \A s \in DOMAIN m_serviceProviderMap :
          LET p == m_serviceProviderMap[s] IN
          /\ p \in Discovered
          /\ s \in m_pluginMap[p].provides
          /\ \A id \in Discovered \ {p} :
                s \in m_pluginMap[id].provides => Before(m_loaders, p, id)

\* what the loop of discover() does with each candidate in this state
CandidateHandled ==
    \A f \in Files :
       LET r == discoverFile(Tables, f) IN
       IF f.mpf /\ f.meta.id \in Discovered THEN r = Tables
       ELSE (f.mpf /\ isValid(f.meta)) =>
               /\ r.count = 1
               /\ DOMAIN r.map = Discovered \cup {f.meta.id}
               /\ r.map[f.meta.id] = f.meta
               /\ \A s \in DOMAIN m_serviceProviderMap : r.prov[s] = m_serviceProviderMap[s]

C15_FirstSeenWins ==
    /\ [](FirstProviderKept /\ CandidateHandled)
    /\ [][ lastOp' = "discover" =>
              /\ \A id \in Discovered :
                    id \in DOMAIN m_pluginMap' /\ m_pluginMap'[id] = m_pluginMap[id]
              /\ \A s \in DOMAIN m_serviceProviderMap :
                    /\ s \in DOMAIN m_serviceProviderMap'
                    /\ m_serviceProviderMap'[s] = m_serviceProviderMap[s]
              /\ lastResult' = Cardinality(DOMAIN m_pluginMap' \ Discovered) ]_vars

\* discover() has just accepted and counted a plugin that lists a service an
\* earlier plugin provides, and the service is still mapped to the earlier one
C15_Witness ==
    /\ lastOp = "discover"
    /\ lastResult = 1
    /\ \E x, y \in Discovered :
          /\ x # y
          /\ y = m_loaders[Len(m_loaders)]
          /\ \E s \in m_pluginMap[x].provides \cap m_pluginMap[y].provides :
                m_serviceProviderMap[s] = x

(***************************************************************************)
(* C16. For discovered plugins with no dependency edges, loadOrder()       *)
(* returns every id exactly once, and loadOrder() calls with no discover() *)
(* or unloadAll() in between return the identical sequence.                *)
(***************************************************************************)
NoEdges == \A A, B \in Discovered : ~Requires(A, B)

C16_NoEdgesTotalAndStable ==
    /\ [](NoEdges =>
             /\ Len(loadOrder) = Cardinality(Discovered)
             /\ \A id \in Discovered : Count(loadOrder, id) = 1
             /\ lastOp = "loadOrder" => lastResult = loadOrder)
    /\ [][ (NoEdges /\ lastOp' \notin {"discover", "unloadAll", "destroy"}) =>
              loadOrder' = loadOrder ]_vars

\* loadOrder() has answered twice in a row for two plugins without edges
C16_Witness ==
    /\ lastOp = "loadOrder"
    /\ repeated
    /\ NoEdges
    /\ Cardinality(Discovered) = 2
    /\ Len(lastResult) = 2

(***************************************************************************)
(* Vocabulary of the bus properties.                                       *)
(***************************************************************************)
\* every call in progress, on any thread
AllFrames == UNION { Range(frames[t]) : t \in Threads }

\* the subscriptions a delivery has notified so far: handlers invoked and
\* returned, handlers queued, and the handler running now
Recipients(f) ==
    Range(f.invoked) \cup Range(f.queued)
       \cup (IF f.pc = "handler" THEN {f.matches[f.i]} ELSE {})

\* the subscriptions of the snapshot that pass the own-event filter
Eligible(f) ==
    { id \in DOMAIN f.snap :
         f.snap[id].options.receiveOwnEvents \/ f.snap[id].subscriberId # f.senderId }

(***************************************************************************)
(* C17. An in-flight publish/publishSync delivers to exactly the           *)
(* subscriptions that matched when the snapshot was taken under the lock:  *)
(* a subscribe or unsubscribe made after the snapshot, by a handler or by  *)
(* another thread, adds no recipient to the delivery and never makes the   *)
(* delivery read a subscription record that was removed from the table.    *)
(***************************************************************************)
C17_DeliveryKeepsToSnapshot ==
    /\ \A f \in AllFrames : f.kind = "deliver" => Recipients(f) \subseteq Eligible(f)
    /\ (step.ended \in {"publish", "publishSync"} /\ step.op \in {"deliver", "handlerEnd", "sort"}
           /\ step.how = "return")
          => Range(step.frame.invoked) \cup Range(step.frame.queued) = Eligible(step.frame)
    /\ ~step.dangling

(***************************************************************************)
(* C18. Every read or write of the subscription table, the handler table   *)
(* and the statistics table, the reads of a subscription's options,        *)
(* subscriberId and handler made while delivering included, happens while  *)
(* the bus mutex is held.                                                  *)
(***************************************************************************)
C18_TablesOnlyUnderMutex == step.access # "unlocked"

(***************************************************************************)
(* C19. The bus mutex is never held by a thread while a subscriber handler *)
(* or a request handler runs on it, so a handler that calls back into the  *)
(* bus is never stopped by the mutex its own thread holds.                 *)
(***************************************************************************)
C19_MutexFreeInHandlers ==
    \A t \in Threads : InHandler(t) => m_mutex # t

\* a subscriber handler, running inside a delivery, has called unsubscribe()
\* on a subscription of the bus and the call has returned true
C19_Witness ==
    /\ step.op = "unsubscribe"
    /\ step.nested
    /\ step.ret = TRUE
    /\ \E t \in Threads : InHandler(t) /\ Top(t).kind = "deliver"

(***************************************************************************)
(* C20. publishSync to N matching subscriptions that pass the own-event    *)
(* filter returns N and has invoked all N handlers before it returns, in   *)
(* descending order of options.priority.                                   *)
(***************************************************************************)
C20_SyncNotifiesAllInOrder ==
    step.ended = "publishSync" =>
       IF step.op = "publishSync" THEN step.ret = 0
       ELSE LET f == step.frame IN
            /\ step.how = "return"
            /\ step.ret = Cardinality(Eligible(f))
            /\ Len(f.invoked) = Cardinality(Eligible(f))
            /\ Range(f.invoked) = Eligible(f)
            /\ \A i, j \in 1..Len(f.invoked) :
                  i < j => f.snap[f.invoked[i]].options.priority
                              >= f.snap[f.invoked[j]].options.priority

\* the subscription of the snapshot is called inline by the delivery (not
\* through the event queue)
Inline(f, id) == f.synchronous \/ ~f.snap[id].options.async

(***************************************************************************)
(* C21. When several subscriptions matching the published topic have equal *)
(* options.priority, their handlers are invoked in the order in which      *)
(* subscribe() created the subscriptions: while the handler of one runs    *)
(* inside a delivery, no subscription of the same priority that was        *)
(* created before it is still waiting for its inline call.                 *)
(***************************************************************************)
C21_TiesInSubscriptionOrder ==
    \A f \in AllFrames :
       (f.kind = "deliver" /\ f.pc = "handler") =>
          \A k \in (f.i + 1)..Len(f.matches) :
             LET cur == f.matches[f.i]
                 later == f.matches[k]
             IN (/\ later \in Eligible(f)
                 /\ Inline(f, later)
                 /\ f.snap[later].options.priority = f.snap[cur].options.priority)
                   => cur < later

(***************************************************************************)
(* C22. publish() hands the asynchronous subscriptions to the event queue  *)
(* and calls the others inline; publishSync() calls every one inline; the  *)
(* value returned counts both.                                             *)
(***************************************************************************)
\* the functors of the event queue that are running
QueuedFrames == { f \in AllFrames : f.kind = "queued" }

Deliveries == { f \in AllFrames : f.kind = "deliver" }

\* a delivery calls inline exactly the subscriptions it does not queue, and
\* publishSync queues none
InlineOrQueued ==
    \A f \in Deliveries :
       /\ \A id \in Range(f.queued) : f.snap[id].options.async /\ ~f.synchronous
       /\ \A id \in Recipients(f) \ Range(f.queued) : Inline(f, id)

\* publish()/publishSync() returns once every inline recipient has been
\* invoked and every other one queued, and counts both
CountsBothAtReturn ==
    (step.ended \in {"publish", "publishSync"} /\ step.op # step.ended)
       => LET f == step.frame
          IN /\ step.how = "return"
             /\ Range(f.invoked) = { id \in Eligible(f) : Inline(f, id) }
             /\ Range(f.queued) = { id \in Eligible(f) : ~Inline(f, id) }
             /\ step.ret = Len(f.invoked) + Len(f.queued)

\* the queued functor g carries the event of the delivery f
SameEvent(f, g) == g.timestamp = f.timestamp /\ g.sub \in Range(f.queued)

C22_AsyncInvokedAfterReturn ==
    /\ InlineOrQueued
    /\ CountsBothAtReturn
    /\ \A f \in Deliveries, g \in QueuedFrames : ~SameEvent(f, g)

(***************************************************************************)
(* C23. Each delivery queued by publish() is eventually executed, and      *)
(* executed at most once, provided the bus lives and its event queue is    *)
(* processed; an unsubscribe or unsubscribeAll made after the delivery was *)
(* queued does not retract it.  A queued delivery is named by its          *)
(* subscription and the time of its event.                                 *)
(***************************************************************************)
Queued(id, ts) ==
    \E k \in 1..Len(eventQueue) :
       eventQueue[k].sub = id /\ eventQueue[k].timestamp = ts

Executing(id, ts) ==
    \E g \in QueuedFrames : g.sub = id /\ g.timestamp = ts

C23_QueuedRunsOnce ==
    \A id \in 1..MaxSubs, ts \in 1..MaxEvents :
       /\ [](Queued(id, ts) => <>(Executing(id, ts) \/ ~running))
       /\ [](Executing(id, ts) => [](~Queued(id, ts)))
       /\ [](Cardinality({ k \in 1..Len(eventQueue) :
                             eventQueue[k].sub = id /\ eventQueue[k].timestamp = ts }) <= 1)

\* the event loop starts the handler of a delivery whose subscription was
\* removed from the table after the delivery was queued
C23_Witness ==
    /\ step.op = "processQueued"
    /\ \E g \in QueuedFrames : g.sub \notin DOMAIN m_subscriptions

(***************************************************************************)
(* C24. At every moment at most one request handler is registered per      *)
(* topic, also when registerHandler is called from several threads:        *)
(* registerHandler returns false and leaves the handler table unchanged    *)
(* when the topic is already claimed, the topic is empty or the handler is *)
(* null, and a request on a topic claimed twice is answered by the first   *)
(* registrant.                                                             *)
(***************************************************************************)
\* the handler ids under which the index lists the topic
Claimants(topic) ==
    { h \in DOMAIN m_handlerIndex : topic \in Range(m_handlerIndex[h]) }

OneHandlerPerTopic ==
    \A topic \in DOMAIN m_requestHandlers :
       /\ m_requestHandlers[topic].topic = topic
       /\ Claimants(topic) = { m_requestHandlers[topic].handlerId }
       /\ Count(m_handlerIndex[m_requestHandlers[topic].handlerId], topic) = 1

\* a registerHandler call and what it leaves
RegisterClaimsOnlyFree ==
    step'.op = "registerHandler" =>
       LET a == step'.frame
       IN IF a.topic = << >> \/ a.handler = "null"
             \/ a.topic \in DOMAIN m_requestHandlers
          THEN /\ step'.ret = FALSE
               /\ UNCHANGED << m_requestHandlers, m_handlerIndex >>
          ELSE /\ step'.ret = TRUE
               /\ m_requestHandlers' =
                     Put(m_requestHandlers, a.topic,
                         [topic |-> a.topic, handlerId |-> a.handlerId,
                          handler |-> a.handler])

\* a request calls the handler the table holds for its topic
RequestCallsRegistrant ==
    (step'.op = "request" /\ step'.ended = "") =>
       \A t \in Threads :
          Len(frames'[t]) > Len(frames[t]) =>
             LET f == frames'[t][Len(frames'[t])]
                 entry == m_requestHandlers[step'.frame.topic]
             IN f.handlerId = entry.handlerId /\ f.handler = entry.handler

C24_OneHandlerPerTopic ==
    /\ []OneHandlerPerTopic
    /\ [][RegisterClaimsOnlyFree /\ RequestCallsRegistrant]_vars

\* a second registrant of a claimed topic is turned away while a request
\* on the topic is being answered by the first
C24_Witness ==
    /\ step.op = "registerHandler"
    /\ step.ret = FALSE
    /\ step.frame.handler # "null"
    /\ step.frame.topic \in DOMAIN m_requestHandlers
    /\ step.frame.handlerId # m_requestHandlers[step.frame.topic].handlerId
    /\ \E f \in AllFrames :
          /\ f.kind = "request"
          /\ f.topic = step.frame.topic
          /\ f.handlerId = m_requestHandlers[step.frame.topic].handlerId

(***************************************************************************)
(* C25. request() returns no value when no handler is registered for the   *)
(* exact topic and when the registered handler raises; what the handler    *)
(* raises never leaves request() and changes nothing of the handler table  *)
(* or of the rest of the bus; otherwise request() returns the handler's    *)
(* response.                                                               *)
(***************************************************************************)
\* the tables of the bus and its event queue
BusTables ==
    << m_subscriptions, m_subscriberIndex, m_topicStats, m_requestHandlers,
       m_handlerIndex, eventQueue >>

\* how a request() that has ended did end
RequestEndsByReturn ==
    step.ended = "request" =>
       /\ step.how = "return"
       /\ step.op = "request" => step.ret = "nullopt"
       /\ step.op = "handlerEnd" =>
             step.ret = IF step.frame.raised THEN "nullopt" ELSE "response"

\* request() ends at once exactly when the topic has no handler, and the
\* end of a request handler, raised or not, leaves the tables alone
RequestLeavesTables ==
    /\ step'.op = "request" =>
          /\ (step'.ended = "request") <=>
                (step'.frame.topic \notin DOMAIN m_requestHandlers)
          /\ UNCHANGED BusTables
    /\ (step'.op = "handlerEnd" /\ step'.ended = "request") =>
          UNCHANGED << BusTables, running >>

C25_RequestContainsFailure ==
    /\ []RequestEndsByReturn
    /\ [][RequestLeavesTables]_vars

\* a request whose handler raised has returned no value
C25_Witness ==
    /\ step.ended = "request"
    /\ step.op = "handlerEnd"
    /\ step.frame.raised
    /\ step.ret = "nullopt"
    /\ step.frame.topic \in DOMAIN m_requestHandlers

(***************************************************************************)
(* C26. A subscription with receiveOwnEvents = false is skipped, neither   *)
(* invoked nor counted, for every event whose senderId is its subscriberId *)
(* and is notified of every other matching event; with receiveOwnEvents =  *)
(* true it is notified of matching events whatever the sender.             *)
(***************************************************************************)
\* the delivery is of an event of the subscription's own owner, which the
\* subscription does not take
OwnEvent(f, id) ==
    ~f.snap[id].options.receiveOwnEvents /\ f.snap[id].subscriberId = f.senderId

\* the subscriptions a finished delivery has notified: handlers that ran,
\* handlers queued, and the handler whose exception ended it
NotifiedAtEnd ==
    Range(step.frame.invoked) \cup Range(step.frame.queued)
       \cup (IF step.how = "raise" THEN {step.frame.matches[step.frame.i]} ELSE {})

C26_OwnEventsSkippedOthersNotified ==
    /\ \A f \in Deliveries : \A id \in DOMAIN f.snap :
          OwnEvent(f, id) => id \notin Recipients(f)
    /\ (step.ended \in {"publish", "publishSync"} /\ step.op # step.ended) =>
          /\ \A id \in DOMAIN step.frame.snap :
                (id \in NotifiedAtEnd) <=> ~OwnEvent(step.frame, id)
          /\ step.how = "return" =>
                step.ret = Cardinality({ id \in DOMAIN step.frame.snap :
                                            ~OwnEvent(step.frame, id) })

(***************************************************************************)
(* C27. unsubscribeAll(ownerId) removes exactly the subscriptions whose    *)
(* subscriberId is ownerId and leaves the subscriptions of every other     *)
(* owner, the handler table and the topic statistics unchanged; for an     *)
(* owner with no subscriptions it changes nothing and emits no signal.     *)
(***************************************************************************)
\* the subscriptions of the table that belong to the owner
OwnedBy(owner) ==
    { id \in DOMAIN m_subscriptions : m_subscriptions[id].subscriberId = owner }

C27_UnsubscribeAllRemovesOwners ==
    [][step'.op = "unsubscribeAll" =>
          LET owner == step'.frame.subscriberId
          IN /\ m_subscriptions' = Without(m_subscriptions, OwnedBy(owner))
             /\ m_subscriberIndex' = Without(m_subscriberIndex, {owner})
             /\ UNCHANGED << m_requestHandlers, m_handlerIndex, m_topicStats,
                             eventQueue, frames >>
             /\ step'.ret = 0 <=> OwnedBy(owner) = {}
             /\ OwnedBy(owner) = {} =>
                   UNCHANGED << m_subscriptions, m_subscriberIndex >>]_vars

\* unsubscribeAll has removed the subscriptions of one owner from a bus
\* that keeps a subscription of another owner and a request handler
C27_Witness ==
    /\ step.op = "unsubscribeAll"
    /\ step.ret > 0
    /\ m_subscriptions # << >>
    /\ m_requestHandlers # << >>
    /\ step.frame.subscriberId \notin DOMAIN m_subscriberIndex

(***************************************************************************)
(* C28. For every topic string, the eventCount of topicStats(topic) is the *)
(* number of publish() and publishSync() calls made so far with exactly    *)
(* that topic: it is 0 on a new bus, each such call adds exactly one to it *)
(* whether or not a subscription matched and whoever else is publishing,   *)
(* and nothing else, request() included, changes it.                       *)
(***************************************************************************)
CountedTopics == EventTopics \cup RequestTopics \cup { << "o", "/", "*" >> }

C28_CountIsNumberOfPublishes ==
    /\ \A topic \in CountedTopics : topicStats(topic).eventCount = 0
    /\ [][\A topic \in CountedTopics :
             topicStats(topic).eventCount' =
                topicStats(topic).eventCount
                   + (IF step'.op \in {"publish", "publishSync"}
                         /\ step'.frame.topic = topic
                      THEN 1 ELSE 0)]_vars

\* a topic has been published twice, the second time with no subscription
\* matching, while another thread is inside a delivery
C28_Witness ==
    /\ step.op \in {"publish", "publishSync"}
    /\ step.ended = step.op
    /\ step.ret = 0
    /\ topicStats(step.frame.topic).eventCount = 2
    /\ Deliveries # {}

(***************************************************************************)
(* C29. matchesTopic(topic, pattern) is true exactly when the whole topic  *)
(* matches the pattern segment by segment: a segment `*` of the pattern    *)
(* stands for exactly one whole non-empty segment of the topic, a segment  *)
(* `**` for one or more segments, every other character is literal.        *)
(* Stated for the patterns whose stars are whole segments.                 *)
(***************************************************************************)
RECURSIVE Segments(_)

\* the `/`-delimited segments of a topic or pattern
Segments(s) ==
    IF \A i \in 1..Len(s) : s[i] # "/" THEN << s >>
    ELSE LET k == CHOOSE i \in 1..Len(s) :
                     s[i] = "/" /\ \A m \in 1..(i - 1) : s[m] # "/"
         IN << SubSeq(s, 1, k - 1) >> \o Segments(SubSeq(s, k + 1, Len(s)))

\* every star of the pattern is a segment `*` or `**` of its own
StarsAreSegments(pattern) ==
    \A i \in 1..Len(Segments(pattern)) :
       LET seg == Segments(pattern)[i]
       IN seg \in { << "*" >>, << "*", "*" >> } \/ \A m \in 1..Len(seg) : seg[m] # "*"

RECURSIVE SegmentsMatch(_, _, _, _)

\* the pattern segments ps[i..] match the topic segments ts[j..]; the
\* segments a `**` stands for are not one empty segment alone
SegmentsMatch(ps, i, ts, j) ==
    IF i > Len(ps) THEN j > Len(ts)
    ELSE IF ps[i] = << "*" >>
    THEN j <= Len(ts) /\ ts[j] # << >> /\ SegmentsMatch(ps, i + 1, ts, j + 1)
    ELSE IF ps[i] = << "*", "*" >>
    THEN \E k \in j..Len(ts) :
            /\ k > j \/ ts[j] # << >>
            /\ SegmentsMatch(ps, i + 1, ts, k + 1)
    ELSE j <= Len(ts) /\ ts[j] = ps[i] /\ SegmentsMatch(ps, i + 1, ts, j + 1)

C29_MatchesSegmentBySegment ==
    (step.op = "matchesTopic" /\ StarsAreSegments(step.frame.pattern)) =>
       (step.ret <=> SegmentsMatch(Segments(step.frame.pattern), 1,
                                   Segments(step.frame.topic), 1))

(***************************************************************************)
(* C30: unregisterHandler(topic) returns true exactly when a handler was   *)
(* registered for the topic; after the call hasHandler(topic) is false and *)
(* the topic can be claimed again: a registerHandler for an unclaimed      *)
(* topic, with a handler, succeeds and makes the caller its registrant.    *)
(* unregisterAllHandlers(handlerId) removes exactly the topics whose       *)
(* registrant is handlerId; the entries of every other handlerId stay as   *)
(* they were.                                                              *)
(***************************************************************************)
\* the topics whose registered handler was registered under handlerId
RegisteredUnder(handlerId) ==
    { topic \in DOMAIN m_requestHandlers :
         m_requestHandlers[topic].handlerId = handlerId }

UnregisterHandlerFrees ==
    \A topic \in RequestTopicsAll :
       (step'.op = "unregisterHandler" /\ step'.frame.topic = topic) =>
          /\ step'.ret <=> hasHandler(topic)
          /\ ~hasHandler(topic)'
          /\ \A other \in DOMAIN m_requestHandlers \ {topic} :
                /\ hasHandler(other)'
                /\ m_requestHandlers'[other] = m_requestHandlers[other]

FreeTopicCanBeClaimed ==
    \A a \in RegArgsAll :
       (/\ step'.op = "registerHandler"
        /\ step'.frame = a
        /\ a.topic # << >>
        /\ a.handler # "null"
        /\ ~hasHandler(a.topic)) =>
          /\ step'.ret = TRUE
          /\ hasHandler(a.topic)'
          /\ m_requestHandlers'[a.topic].handlerId = a.handlerId

UnregisterAllFreesOwnTopics ==
    \A handlerId \in Owners :
       (step'.op = "unregisterAllHandlers" /\ step'.frame.handlerId = handlerId) =>
          /\ DOMAIN m_requestHandlers' =
                DOMAIN m_requestHandlers \ RegisteredUnder(handlerId)
          /\ \A topic \in DOMAIN m_requestHandlers' :
                m_requestHandlers'[topic] = m_requestHandlers[topic]
          /\ step'.ret = Cardinality(RegisteredUnder(handlerId))

C30_UnregisterFreesTopics ==
    [][UnregisterHandlerFrees /\ FreeTopicCanBeClaimed /\ UnregisterAllFreesOwnTopics]_vars

\* unregisterAllHandlers has freed a topic of its handlerId while a topic of
\* another handlerId stays registered
C30_Witness ==
    /\ step.op = "unregisterAllHandlers"
    /\ step.ret >= 1
    /\ \E topic \in DOMAIN m_requestHandlers :
          m_requestHandlers[topic].handlerId # step.frame.handlerId

(***************************************************************************)
(* C31. subscribe() with a null handler returns the empty id and registers *)
(* nothing: the subscription table, the owner index and totalSubscribers() *)
(* are as before and no signal is emitted.  With a handler it returns a    *)
(* non-empty id that no earlier subscribe() returned.                      *)
(***************************************************************************)
\* the ids subscribe() has returned so far
IssuedIds == 1..(nextSub - 1)

NullHandlerRegistersNothing ==
    \A a \in SubArgs :
       (step'.op = "subscribe" /\ step'.frame = a /\ a.handler = "null") =>
          /\ step'.ret = 0
          /\ UNCHANGED << m_subscriptions, m_subscriberIndex >>
          /\ totalSubscribers' = totalSubscribers
          /\ step'.signals = 0

HandlerGetsFreshId ==
    \A a \in SubArgs :
       (step'.op = "subscribe" /\ step'.frame = a /\ a.handler # "null") =>
          /\ step'.ret # 0
          /\ step'.ret \notin IssuedIds
          /\ step'.ret \in DOMAIN m_subscriptions'

C31_NullHandlerRejected ==
    [][NullHandlerRegistersNothing /\ HandlerGetsFreshId]_vars

\* a subscribe() with a null handler has returned on a bus that holds a
\* subscription of the same owner
C31_Witness ==
    /\ step.op = "subscribe"
    /\ step.frame.handler = "null"
    /\ step.ret = 0
    /\ step.frame.subscriberId \in DOMAIN m_subscriberIndex

(***************************************************************************)
(* C32. Every handler sees the event data as it was published, whatever    *)
(* the other subscribers and the publisher have done to their maps: the    *)
(* data of every event being delivered and of every queued copy is as      *)
(* sent, and the map a holder keeps changes only when that holder writes   *)
(* to it or takes a new one.                                               *)
(***************************************************************************)
\* the events a handler is being, or is still to be, called with
EventsInFlight ==
    { f \in AllFrames : carriesData(f) } \cup Range(eventQueue)

DataAsSent == \A e \in EventsInFlight : heap[e.data] = "sent"

\* what the map of holder h holds
kept(h) == heap[held[h]]

OnlyOwnWrites ==
    \A h \in DOMAIN held :
       (h \in DOMAIN held' /\ kept(h)' # kept(h)) =>
          /\ step'.op \in {"writeCopy", "keepCopy", "publish", "publishSync"}
          /\ step'.op \in {"writeCopy", "keepCopy"} => step'.frame.holder = h
          /\ step'.op \in {"publish", "publishSync"} => h = 0

Takers(f) ==
    { id \in DOMAIN f.snap :
         f.snap[id].options.receiveOwnEvents \/ f.snap[id].subscriberId # f.senderId }

C33_HandlerFailureContained ==
    (step.ended \in {"publish", "publishSync"} /\ step.op \in {"deliver", "handlerEnd"}) =>
       /\ step.how # "raise"
       /\ step.how = "return" =>
             Takers(step.frame) \subseteq (Range(step.frame.invoked) \cup Range(step.frame.queued))

(***************************************************************************)
(* C34. After loadAll() a plugin is loaded only if every discovered plugin *)
(* that one of its mandatory dependencies stands for, named directly or    *)
(* through a required service, is loaded.                                  *)
(***************************************************************************)
\* the discovered plugins the mandatory dependencies of id stand for
MandatoryPlugins(id) ==
    { depPluginId(m_pluginMap[id].requires[i]) :
         i \in { k \in 1..Len(m_pluginMap[id].requires) :
                    ~m_pluginMap[id].requires[k].optional } }
       \cap DOMAIN m_pluginMap

C34_LoadedOnlyAfterDependencies ==
    lastOp = "loadAll" =>
       \A id \in DOMAIN m_pluginMap :
          isLoaded(loaderState[id]) =>
             \A dep \in MandatoryPlugins(id) : isLoaded(loaderState[dep])

(***************************************************************************)
(* C35. Whatever subscribe, unsubscribe and unsubscribeAll calls were      *)
(* made, from whichever threads, the owner index agrees with the           *)
(* subscription table: subscriptionsFor(owner) lists exactly the ids of    *)
(* the subscriptions of the table whose subscriberId is owner, each once,  *)
(* and totalSubscribers() is the sum of the sizes of the lists.            *)
(***************************************************************************)
\* the owners the index or the table knows
KnownOwners ==
    Owners \cup DOMAIN m_subscriberIndex
           \cup { m_subscriptions[id].subscriberId : id \in DOMAIN m_subscriptions }

RECURSIVE SumOfSizes(_)

\* the sum of the sizes of the lists of the owners in S
SumOfSizes(S) ==
    IF S = {} THEN 0
    ELSE LET owner == CHOOSE o \in S : TRUE
         IN Len(subscriptionsFor(owner)) + SumOfSizes(S \ {owner})

C35_IndexAgreesWithTable ==
    /\ \A owner \in KnownOwners :
          /\ Range(subscriptionsFor(owner)) = OwnedBy(owner)
          /\ Len(subscriptionsFor(owner)) = Cardinality(OwnedBy(owner))
    /\ totalSubscribers = SumOfSizes(KnownOwners)

\* an unsubscribe() has removed one of two subscriptions
C35_Witness ==
    /\ step.op = "unsubscribe"
    /\ step.ret = TRUE
    /\ totalSubscribers = 1
    /\ nextSub > MaxSubs

(***************************************************************************)
(* C36. A request() that starts after unregisterHandler(topic) or          *)
(* unregisterAllHandlers(handlerId) has returned does not invoke the       *)
(* removed handler: the removal leaves no entry of the topic, or of the    *)
(* handlerId, in the table, and a request() invokes the handler the table  *)
(* holds for its topic when it looks it up, and none when there is no      *)
(* entry.  A request() that looked the handler up before the removal may   *)
(* still run it, once.                                                     *)
(***************************************************************************)
\* the request frames that thread t has more of after the step
Started(t) ==
    IF Len(frames'[t]) > Len(frames[t]) THEN { frames'[t][Len(frames'[t])] } ELSE {}

RemovalLeavesNoEntry ==
    /\ \A topic \in RequestTopicsAll :
          (step'.op = "unregisterHandler" /\ step'.frame.topic = topic) =>
             ~hasHandler(topic)'
    /\ \A handlerId \in Owners :
          (step'.op = "unregisterAllHandlers" /\ step'.frame.handlerId = handlerId) =>
             RegisteredUnder(handlerId)' = {}

RequestInvokesFromTable ==
    \A topic \in RequestTopicsAll :
       (step'.op = "request" /\ step'.frame.topic = topic) =>
          IF hasHandler(topic)
          THEN \E t \in Threads :
                  /\ Started(t) # {}
                  /\ \A f \in Started(t) :
                        /\ f.kind = "request"
                        /\ f.topic = topic
                        /\ f.handlerId = m_requestHandlers[topic].handlerId
                        /\ f.handler = m_requestHandlers[topic].handler
                  /\ \A u \in Threads \ {t} : Started(u) = {}
          ELSE /\ \A t \in Threads : Started(t) = {}
               /\ step'.ended = "request"
               /\ step'.ret = "nullopt"

\* a handler is run for requests only
OnlyRequestsRunHandlers ==
    \A t \in Threads :
       \A f \in Started(t) : f.kind = "request" => step'.op = "request"

C36_NoRequestAfterRemoval ==
    [][RemovalLeavesNoEntry /\ RequestInvokesFromTable /\ OnlyRequestsRunHandlers]_vars

\* a request() whose handler was removed while it ran has been answered by
\* that handler
C36_Witness ==
    /\ step.op = "handlerEnd"
    /\ step.ended = "request"
    /\ step.ret = "response"
    /\ ~hasHandler(step.frame.topic)

(***************************************************************************)
(* C37. An event published with an empty senderId is delivered to every    *)
(* matching subscription whose subscriberId is not empty; a matching       *)
(* subscription whose subscriberId is empty as well gets it exactly when   *)
(* it has receiveOwnEvents = true.                                         *)
(***************************************************************************)
\* the subscriptions the ended delivery f has called or queued a call for
Reached(f, how) ==
    Range(f.invoked) \cup Range(f.queued)
       \cup (IF how = "raise" THEN { f.matches[f.i] } ELSE {})

C37_EmptySenderIsASender ==
    (/\ step.ended \in {"publish", "publishSync"}
     /\ step.op \in {"deliver", "handlerEnd"}
     /\ step.frame.senderId = "") =>
       \A id \in DOMAIN step.frame.snap :
          LET sub == step.frame.snap[id]
              delivered == id \in Reached(step.frame, step.how)
          IN IF sub.subscriberId # "" THEN delivered
             ELSE delivered <=> sub.options.receiveOwnEvents

(***************************************************************************)
(* C38. Every value of the service provider map is the id of a plugin of   *)
(* the plugin id map, one whose accepted metadata lists the service.       *)
(* After unloadAll() the id map, the loader list and the provider map are  *)
(* empty, and a phase called on an empty manager invokes nothing, reports  *)
(* no error, changes nothing and, where it returns a value, returns true.  *)
(***************************************************************************)
ProvidersAreDiscovered ==
    \A s \in DOMAIN m_serviceProviderMap :
       /\ m_serviceProviderMap[s] \in DOMAIN m_pluginMap
       /\ s \in m_pluginMap[m_serviceProviderMap[s]].provides

EmptyAfterUnloadAll ==
    lastOp = "unloadAll" =>
       /\ m_pluginMap = << >>
       /\ m_loaders = << >>
       /\ m_serviceProviderMap = << >>

PhaseOnEmptyIsNoOp ==
    (/\ m_pluginMap = << >>
     /\ m_loaders = << >>
     /\ lastOp' \in {"loadAll", "initializeAll", "startAll", "stopAll", "unloadAll"}) =>
       /\ calls' = << >>
       /\ errors' = {}
       /\ UNCHANGED << m_pluginMap, m_loaders, loaderState, m_serviceProviderMap >>
       /\ lastOp' \in {"loadAll", "initializeAll", "startAll"} => lastResult' = TRUE

C38_ProvidersDiscoveredEmptyAfterUnload ==
    [](ProvidersAreDiscovered /\ EmptyAfterUnloadAll) /\ [][PhaseOnEmptyIsNoOp]_vars

\* unloadAll() has unloaded a plugin and left every map empty
C38_Witness ==
    /\ lastOp = "unloadAll"
    /\ calls # << >>
    /\ lastOrder # << >>
    /\ m_pluginMap = << >>
    /\ m_loaders = << >>
    /\ m_serviceProviderMap = << >>

====
